---- MODULE Spec2Model ----
(***************************************************************************)
(* State-machine model of the validator scripts of AIEnlightenmentTime:    *)
(*   intelligent-validator-v5.py   (IntelligentValidatorV5)                *)
(*   validator-v5-fixed.py         (ValidatorV5, "V5.1")                   *)
(*   smart-validator.py            (SmartValidator)                        *)
(*   intelligent-validator-v6.py   (IntelligentValidatorV6)                *)
(*   recursive-validator.py        (RecursiveValidator)                    *)
(*                                                                         *)
(* Every script is a single-threaded pipeline over one validator object.   *)
(* The variables are the fields of that object, pc is the position in      *)
(* validate() / __main__, and one specification per script runs it.        *)
(*                                                                         *)
(* Units.  V6 scores are floats that are multiples of 0.5; a dimension     *)
(* score is kept in half points (100.0 is 200) and a weight in hundredths  *)
(* (0.25 is 25), so the composite is kept in 1/200 of a point (100.0 is    *)
(* 20000).  All values the code can produce are exact in these units.      *)
(***************************************************************************)
EXTENDS Integers, Sequences, FiniteSets, TLC

VARIABLES
    script,          \* which script / validator class is running
    project,         \* the analysed project: the input, fixed during a run
    pc,              \* position in validate() and __main__
    issues,          \* self.issues
    functions,       \* self.functions (V5, SmartValidator)
    contexts,        \* self.contexts (V5)
    screens,         \* self.screens (SmartValidator)
    navigations,     \* self.navigations (SmartValidator)
    system_health,   \* self.system_health (V6)
    iteration_count, \* self.iteration_count (RecursiveValidator)
    fixed_count,     \* self.fixed_count (RecursiveValidator)
    report,          \* the dict returned by validate()
    exit_status      \* exit status of the process, "running" before it ends

vars == <<script, project, pc, issues, functions, contexts, screens, navigations,
          system_health, iteration_count, fixed_count, report, exit_status>>

----------------------------------------------------------------------------
(* Bounds of the model *)

\* most issues one V6 pipeline run records
MaxV6Issues == 3
\* length of the freely chosen prefix of an issue list handed to the scorer
MaxMixed == 2
\* longest issue list handed to the scorer (prefix, then repeats of its last issue)
MaxHealthIssues == 6
\* longest issue list whose every permutation is scored
MaxPermLen == 3
\* longest issue list handed to a report of V5, SmartValidator or V5.1
MaxReportIssues == 3
\* most issues one round of RecursiveValidator records
MaxRecFindings == 2
\* most Kotlin files of a project
MaxFiles == 2
\* most checks that record findings before a report of SmartValidator or V4
MaxChecks == 2
\* most pieces of text between the braces of a function body
MaxInner == 3

\* most issues in a list given to filter_false_positives
MaxFilterIssues == 2
\* most implementation files without error handling in a project of ValidatorPatch
MaxPatchFiles == 39

----------------------------------------------------------------------------
(* Helpers on sequences and numbers *)

Max(a, b) == IF a >= b THEN a ELSE b

Min(a, b) == IF a <= b THEN a ELSE b

Repeat(x, n) == [i \in 1..n |-> x]

Take(s, n) == SubSeq(s, 1, Min(n, Len(s)))

NoValue == "none"

----------------------------------------------------------------------------
(* IntelligentValidatorV6: enums, issue list, health score, report *)

\* class Perspective, in definition order (the order `for p in Perspective` yields)
Perspective == <<"PMO", "ARCHITECT", "DEVELOPER", "QA", "UX">>

\* class IssueLevel of V6, in definition order
IssueLevelV6 == <<"SHOWSTOPPER", "CRITICAL", "MAJOR", "MINOR", "SUGGESTION">>

Range(s) == {s[i] : i \in 1..Len(s)}

V6Issue(p, c, l) == [perspective |-> p, category |-> c, level |-> l]

\* perspective_weights, in hundredths
perspective_weights ==
    [p \in Range(Perspective) |->
        CASE p = "PMO" -> 20
          [] p = "ARCHITECT" -> 25
          [] p = "DEVELOPER" -> 25
          [] p = "QA" -> 20
          [] p = "UX" -> 10]

\* deductions.get(issue.level, 0), in half points
deductions(level) ==
    CASE level = "SHOWSTOPPER" -> 40
      [] level = "CRITICAL" -> 20
      [] level = "MAJOR" -> 10
      [] level = "MINOR" -> 4
      [] level = "SUGGESTION" -> 1
      [] OTHER -> 0

\* score = 100.0; for issue in perspective_issues: score -= deductions.get(...)
RECURSIVE Deduct(_, _)
Deduct(score, perspective_issues) ==
    IF perspective_issues = <<>> THEN score
    ELSE Deduct(score - deductions(Head(perspective_issues).level),
                Tail(perspective_issues))

\* one pass of the loop body of evaluate_system_health for one perspective
PerspectiveScore_nofloor(iss, perspective) ==
    Deduct(200, SelectSeq(iss, LAMBDA i : i.perspective = perspective))

PerspectiveScore(iss, perspective) ==
    Max(0, Deduct(200, SelectSeq(iss, LAMBDA i : i.perspective = perspective)))

\* a Python dict as its sequence of (key, value) items in insertion order
DictHas(d, k) == \E i \in 1..Len(d) : d[i].key = k

DictGet(d, k, default) ==
    IF DictHas(d, k) THEN d[CHOOSE i \in 1..Len(d) : d[i].key = k].value ELSE default

DictSet(d, k, v) ==
    IF DictHas(d, k)
    THEN [i \in 1..Len(d) |-> IF d[i].key = k THEN [key |-> k, value |-> v] ELSE d[i]]
    ELSE Append(d, [key |-> k, value |-> v])

\* for perspective in Perspective: ... self.system_health.dimensions[perspective.value] = score
RECURSIVE SetDimensions(_, _, _)

\* the perspectives in the order in which the issue list first mentions them
RECURSIVE FirstMentions(_, _)
FirstMentions(iss, seen) ==
    IF iss = <<>> THEN seen
    ELSE FirstMentions(Tail(iss),
                       IF Head(iss).perspective \in Range(seen) THEN seen
                       ELSE Append(seen, Head(iss).perspective))

RECURSIVE SetDimensionsOf(_, _, _)
SetDimensionsOf(dims, iss, keys) ==
    IF keys = <<>> THEN dims
    ELSE SetDimensionsOf(DictSet(dims, Head(keys), PerspectiveScore(iss, Head(keys))),
                         iss, Tail(keys))

SetDimensions_issue_order(dims, iss, n) ==
    SetDimensionsOf(dims, iss, FirstMentions(iss, <<>>) \o Perspective)

SetDimensions(dims, iss, n) ==
    IF n > Len(Perspective) THEN dims
    ELSE SetDimensions(DictSet(dims, Perspective[n], PerspectiveScore(iss, Perspective[n])),
                       iss, n + 1)

\* sum(score * perspective_weights[perspective]
\*     for perspective, score in zip(Perspective, dimensions.values()))
RECURSIVE ZipSum(_, _, _)
ZipSum(order, dims, n) ==
    IF n = 0 THEN 0
    ELSE ZipSum(order, dims, n - 1) + dims[n].value * perspective_weights[order[n]]

Reversed(s) == [i \in 1..Len(s) |-> s[Len(s) + 1 - i]]

total_score_reversed(dims) ==
    ZipSum(Reversed(Perspective), dims, Min(Len(Perspective), Len(dims)))

total_score(dims) == ZipSum(Perspective, dims, Min(Len(Perspective), Len(dims)))

\* SystemHealth(score=100.0, dimensions={}, risks=[], strengths=[])
InitialHealth == [score |-> 20000, dimensions |-> <<>>, risks |-> <<>>, strengths |-> <<>>]

\* the value of self.system_health after evaluate_system_health()
EvaluatedHealth(health, iss) ==
    LET dims == SetDimensions(health.dimensions, iss, 1)
        total == total_score(dims)
        risks1 == IF total < 12000
                  THEN Append(health.risks, "overall quality below standard")
                  ELSE health.risks
        risks2 == IF DictGet(dims, "QA", 0) < 100
                  THEN Append(risks1, "tests severely insufficient")
                  ELSE risks1
        strengths1 == IF DictGet(dims, "ARCHITECT", 0) > 160
                      THEN Append(health.strengths, "good architecture")
                      ELSE health.strengths
    IN [score |-> total, dimensions |-> dims, risks |-> risks2, strengths |-> strengths1]

\* issue_stats[level] of generate_comprehensive_report
issue_stats(iss, level) == Len(SelectSeq(iss, LAMBDA i : i.level = level))

\* "can_release": issue_stats[SHOWSTOPPER] == 0 and issue_stats[CRITICAL] < 3
can_release(iss) ==
    issue_stats(iss, "SHOWSTOPPER") = 0 /\ issue_stats(iss, "CRITICAL") < 3

ReportV6(health, iss) ==
    [version |-> "6.0",
     health_score |-> health.score,
     health_dimensions |-> health.dimensions,
     can_release |-> can_release(iss),
     total_issues |-> Len(iss),
     by_level |-> [l \in Range(IssueLevelV6) |-> issue_stats(iss, l)],
     critical_issues |->
        Take(SelectSeq(iss, LAMBDA i : i.level \in {"SHOWSTOPPER", "CRITICAL"}), 20),
     risks |-> health.risks,
     strengths |-> health.strengths]

----------------------------------------------------------------------------
(* IntelligentValidatorV6: the checks.  A check's outcome depends on the     *)
(* project tree only; the number of findings of each check is an input,      *)
(* bounded by what the code of the check can record.  project holds the      *)
(* required paths that do not exist, which several checks read.              *)

\* the paths of required_deliverables, in dict order
required_deliverables ==
    <<"app/src/main", "app/src/test", "app/build.gradle.kts", "README.md", "app/src/main/res">>

\* _add_issue(**kwargs): self.issues.append(ValidationIssue(**kwargs))
_add_issue(iss, issue) == Append(iss, issue)

\* _check_project_deliverables() that records a missing deliverable as SHOWSTOPPER
_check_project_deliverables_as_showstopper(missing) ==
    Repeat(V6Issue("PMO", "missing deliverable", "SHOWSTOPPER"),
           Cardinality(missing \cap Range(required_deliverables)))

_check_project_deliverables(missing) ==
    Repeat(V6Issue("PMO", "missing deliverable", "CRITICAL"),
           Cardinality(missing \cap Range(required_deliverables)))

\* at most the 4 criteria named in criterion_checks can fail
_validate_user_stories(n) == Repeat(V6Issue("PMO", "user story incomplete", "MAJOR"), n)

\* no .github/workflows: one MAJOR; each of the 4 core features with < 3 files: CRITICAL
_assess_project_risks(no_ci, features) ==
    Repeat(V6Issue("PMO", "technical risk", "MAJOR"), no_ci)
    \o Repeat(V6Issue("PMO", "schedule risk", "CRITICAL"), features)

\* README.md missing is CRITICAL, each of the 3 other documents MAJOR
_check_documentation(missing, docs) ==
    (IF "README.md" \in missing
     THEN <<V6Issue("PMO", "missing document", "CRITICAL")>> ELSE <<>>)
    \o Repeat(V6Issue("PMO", "missing document", "MAJOR"), docs)

\* 3 layers of 3 components
_check_architecture_layers(n) ==
    Repeat(V6Issue("ARCHITECT", "architecture incomplete", "MAJOR"), n)

\* read only when app/build.gradle.kts exists; 4 critical_deps
_validate_dependencies(missing, n) ==
    IF "app/build.gradle.kts" \in missing THEN <<>>
    ELSE Repeat(V6Issue("ARCHITECT", "missing dependency", "MAJOR"), n)

_assess_scalability(n) == Repeat(V6Issue("ARCHITECT", "poor scalability", "MAJOR"), n)

_check_performance_design(n) ==
    Repeat(V6Issue("ARCHITECT", "performance design", "MAJOR"), n)

\* one MAJOR per empty function, one MINOR per TODO/FIXME/XXX comment, file by file
_check_code_completeness(empty, todos) ==
    Repeat(V6Issue("DEVELOPER", "empty implementation", "MAJOR"), empty)
    \o Repeat(V6Issue("DEVELOPER", "unfinished task", "MINOR"), todos)

\* one CRITICAL per (operation, Repository/ViewModel file) without error handling
_validate_error_handling(n) ==
    Repeat(V6Issue("DEVELOPER", "missing error handling", "CRITICAL"), n)

\* at most one per resource pattern (break after the first file)
_check_resource_management(n) ==
    Repeat(V6Issue("DEVELOPER", "resource leak risk", "MAJOR"), n)

\* quality_issues[:3]
_assess_code_quality(n) == Repeat(V6Issue("DEVELOPER", "code quality", "MINOR"), n)

\* coverage_ratio < 0.3: one CRITICAL; each of 3 key components without a test: MAJOR
_check_test_coverage(low, untested) ==
    Repeat(V6Issue("QA", "low test coverage", "CRITICAL"), low)
    \o Repeat(V6Issue("QA", "key feature untested", "MAJOR"), untested)

\* 5 edge cases
_validate_edge_cases(n) == Repeat(V6Issue("QA", "edge case unhandled", "MAJOR"), n)

\* one CRITICAL per (vulnerability kind, file) that matches
_check_security_vulnerabilities(n) ==
    Repeat(V6Issue("QA", "security vulnerability", "CRITICAL"), n)

\* 5 + 4 + 4 test scenarios of the three user stories
_simulate_user_scenarios(n) == Repeat(V6Issue("QA", "scenario untested", "MAJOR"), n)

\* fewer than 2 theme files: MAJOR; no loading indicator: MAJOR
_check_ui_consistency(no_theme, no_loading) ==
    Repeat(V6Issue("UX", "inconsistent UI", "MAJOR"), no_theme)
    \o Repeat(V6Issue("UX", "missing user feedback", "MAJOR"), no_loading)

_validate_accessibility(n) == Repeat(V6Issue("UX", "accessibility", "MAJOR"), n)

\* no splash screen: MINOR; large images under an existing res directory: MINOR
_assess_performance_ux(missing, no_splash, large_images) ==
    Repeat(V6Issue("UX", "startup experience", "MINOR"), no_splash)
    \o (IF "app/src/main/res" \in missing THEN <<>>
        ELSE Repeat(V6Issue("UX", "performance optimisation", "MINOR"), large_images))

\* only the first unfriendly message is reported (break)
_check_error_ux(n) == Repeat(V6Issue("UX", "unfriendly error message", "MINOR"), n)

----------------------------------------------------------------------------
(* IntelligentValidatorV6.validate() and __main__ *)

NotV6 == <<functions, contexts, screens, navigations, iteration_count, fixed_count>>

\* the findings fit the bound of the model
Fits(iss, new) == Len(iss) + Len(new) <= MaxV6Issues

InitV6 ==
    /\ script = "v6"
    /\ project \in {m \in SUBSET Range(required_deliverables) :
                        Cardinality(m) + (IF "README.md" \in m THEN 1 ELSE 0) <= MaxV6Issues}
    /\ pc = "pmo"
    /\ issues = <<>>
    /\ system_health = InitialHealth
    /\ functions = NoValue /\ contexts = NoValue
    /\ screens = NoValue /\ navigations = NoValue
    /\ iteration_count = 0 /\ fixed_count = 0
    /\ report = NoValue
    /\ exit_status = "running"

validate_from_pmo_perspective ==
    /\ script = "v6" /\ pc = "pmo"
    /\ \E stories \in 0..4, no_ci \in 0..1, features \in 0..4, docs \in 0..3 :
          LET new == _check_project_deliverables(project)
                     \o _validate_user_stories(stories)
                     \o _assess_project_risks(no_ci, features)
                     \o _check_documentation(project, docs)
          IN /\ Fits(issues, new)
             /\ issues' = issues \o new
    /\ pc' = "architect"
    /\ UNCHANGED <<script, project, system_health, report, exit_status, NotV6>>

validate_from_architect_perspective ==
    /\ script = "v6" /\ pc = "architect"
    /\ \E layers \in 0..9, deps \in 0..4, scal \in 0..1, perf \in 0..1 :
          LET new == _check_architecture_layers(layers)
                     \o _validate_dependencies(project, deps)
                     \o _assess_scalability(scal)
                     \o _check_performance_design(perf)
          IN /\ Fits(issues, new)
             /\ issues' = issues \o new
    /\ pc' = "developer"
    /\ UNCHANGED <<script, project, system_health, report, exit_status, NotV6>>

validate_from_developer_perspective ==
    /\ script = "v6" /\ pc = "developer"
    /\ \E empty \in 0..MaxV6Issues, todos \in 0..MaxV6Issues, unhandled \in 0..MaxV6Issues,
          leaks \in 0..3, quality \in 0..3 :
          LET new == _check_code_completeness(empty, todos)
                     \o _validate_error_handling(unhandled)
                     \o _check_resource_management(leaks)
                     \o _assess_code_quality(quality)
          IN /\ Fits(issues, new)
             /\ issues' = issues \o new
    /\ pc' = "qa"
    /\ UNCHANGED <<script, project, system_health, report, exit_status, NotV6>>

validate_from_qa_perspective ==
    /\ script = "v6" /\ pc = "qa"
    /\ \E low \in 0..1, untested \in 0..3, edges \in 0..5, vulns \in 0..MaxV6Issues,
          scenarios \in 0..13 :
          LET new == _check_test_coverage(low, untested)
                     \o _validate_edge_cases(edges)
                     \o _check_security_vulnerabilities(vulns)
                     \o _simulate_user_scenarios(scenarios)
          IN /\ Fits(issues, new)
             /\ issues' = issues \o new
    /\ pc' = "ux"
    /\ UNCHANGED <<script, project, system_health, report, exit_status, NotV6>>

validate_from_ux_perspective ==
    /\ script = "v6" /\ pc = "ux"
    /\ \E no_theme \in 0..1, no_loading \in 0..1, a11y \in 0..1, no_splash \in 0..1,
          large \in 0..1, unfriendly \in 0..1 :
          LET new == _check_ui_consistency(no_theme, no_loading)
                     \o _validate_accessibility(a11y)
                     \o _assess_performance_ux(project, no_splash, large)
                     \o _check_error_ux(unfriendly)
          IN /\ Fits(issues, new)
             /\ issues' = issues \o new
    /\ pc' = "evaluate"
    /\ UNCHANGED <<script, project, system_health, report, exit_status, NotV6>>

evaluate_system_health ==
    /\ script = "v6" /\ pc = "evaluate"
    /\ system_health' = EvaluatedHealth(system_health, issues)
    /\ pc' = "report"
    /\ UNCHANGED <<script, project, issues, report, exit_status, NotV6>>

generate_comprehensive_report_v6 ==
    /\ script = "v6" /\ pc = "report"
    /\ report' = ReportV6(system_health, issues)
    /\ pc' = "exit"
    /\ UNCHANGED <<script, project, issues, system_health, exit_status, NotV6>>

\* exit(0 if report["can_release"] else 1)
main_v6 ==
    /\ script = "v6" /\ pc = "exit"
    /\ exit_status' = IF report.can_release THEN 0 ELSE 1
    /\ pc' = "done"
    /\ UNCHANGED <<script, project, issues, system_health, report, NotV6>>

NextV6 ==
    \/ validate_from_pmo_perspective
    \/ validate_from_architect_perspective
    \/ validate_from_developer_perspective
    \/ validate_from_qa_perspective
    \/ validate_from_ux_perspective
    \/ evaluate_system_health
    \/ generate_comprehensive_report_v6
    \/ main_v6

SpecV6 == InitV6 /\ [][NextV6]_vars

----------------------------------------------------------------------------
(* The scorer on any issue list: a V6 object whose caller records issues     *)
(* through _add_issue, then evaluates the health and builds the report.      *)

InitHealth ==
    /\ script = "v6"
    /\ project = {}
    /\ pc = "add_issue"
    /\ issues = <<>>
    /\ system_health = InitialHealth
    /\ functions = NoValue /\ contexts = NoValue
    /\ screens = NoValue /\ navigations = NoValue
    /\ iteration_count = 0 /\ fixed_count = 0
    /\ report = NoValue
    /\ exit_status = "running"

\* the caller records one more issue of any perspective and level
add_issue_v6 ==
    /\ script = "v6" /\ pc = "add_issue"
    /\ \E p \in Range(Perspective), l \in Range(IssueLevelV6) :
          LET issue == V6Issue(p, "any", l)
          IN /\ \/ Len(issues) < MaxMixed
                \/ /\ Len(issues) < MaxHealthIssues
                   /\ issues # <<>>
                   /\ issue = issues[Len(issues)]
             /\ issues' = _add_issue(issues, issue)
    /\ UNCHANGED <<script, project, pc, system_health, report, exit_status, NotV6>>

\* the caller stops recording
start_evaluation ==
    /\ script = "v6" /\ pc = "add_issue"
    /\ pc' = "evaluate"
    /\ UNCHANGED <<script, project, issues, system_health, report, exit_status, NotV6>>

NextHealth ==
    \/ add_issue_v6
    \/ start_evaluation
    \/ evaluate_system_health
    \/ generate_comprehensive_report_v6

SpecHealth == InitHealth /\ [][NextHealth]_vars

----------------------------------------------------------------------------
(* Properties of the V6 health score and decision *)

\* evaluate_system_health has run
Evaluated == script = "v6" /\ pc \in {"report", "exit", "done"}

\* generate_comprehensive_report has run
ReportedV6 == script = "v6" /\ pc \in {"exit", "done"}

\* the sum of the deductions of the issues of one perspective, counted level by level
DeductionSum(iss, p) ==
      40 * Len(SelectSeq(iss, LAMBDA i : i.perspective = p /\ i.level = "SHOWSTOPPER"))
    + 20 * Len(SelectSeq(iss, LAMBDA i : i.perspective = p /\ i.level = "CRITICAL"))
    + 10 * Len(SelectSeq(iss, LAMBDA i : i.perspective = p /\ i.level = "MAJOR"))
    +  4 * Len(SelectSeq(iss, LAMBDA i : i.perspective = p /\ i.level = "MINOR"))
    +  1 * Len(SelectSeq(iss, LAMBDA i : i.perspective = p /\ i.level = "SUGGESTION"))

\* C2: in every finished V6 run in which at least one CRITICAL issue was
\* recorded, can_release is false.
C2_AnyCriticalBlocksRelease ==
    (ReportedV6 /\ issue_stats(issues, "CRITICAL") >= 1) => report.can_release = FALSE

\* C4: after evaluate_system_health every dimension score is
\* max(0, 100 - sum of the per-level deductions of that perspective's issues)
\* (20, 10, 5, 2, 0.5 points; here in half points) and lies in [0, 100].
C4_DimensionScore ==
    Evaluated =>
        \A p \in Range(Perspective) :
            /\ DictHas(system_health.dimensions, p)
            /\ DictGet(system_health.dimensions, p, -1)
                   = Max(0, 200 - DeductionSum(issues, p))
            /\ DictGet(system_health.dimensions, p, -1) \in 0..200

\* the deductions of one perspective exceed 100 points, and its score is 0
C4_Witness ==
    /\ Evaluated
    /\ \E p \in Range(Perspective) :
          /\ DeductionSum(issues, p) > 200
          /\ DictGet(system_health.dimensions, p, -1) = 0
    /\ \E p \in Range(Perspective) :
          DictGet(system_health.dimensions, p, -1) = 200

Permuted(iss, f) == [i \in 1..Len(iss) |-> iss[f[i]]]

SameDimensions(d1, d2) ==
    \A p \in Range(Perspective) : DictGet(d1, p, -1) = DictGet(d2, p, -2)

\* C5: the dimension scores and the composite score that evaluate_system_health
\* computes are the same for every permutation of the issue list.
C5_PermutationInvariant ==
    (Evaluated /\ Len(issues) <= MaxPermLen) =>
        \A f \in Permutations(1..Len(issues)) :
            LET other == EvaluatedHealth(InitialHealth, Permuted(issues, f))
            IN /\ SameDimensions(other.dimensions, system_health.dimensions)
               /\ other.score = system_health.score

\* a scored list that has a different permutation: two perspectives, two levels
C5_Witness ==
    /\ Evaluated
    /\ Len(issues) \in 2..MaxPermLen
    /\ issues[1].perspective # issues[2].perspective
    /\ issues[1].level # issues[2].level
    /\ system_health.score < 20000

RECURSIVE WeightedSum(_, _)
WeightedSum(dims, ps) ==
    IF ps = {} THEN 0
    ELSE LET p == CHOOSE q \in ps : TRUE
         IN perspective_weights[p] * DictGet(dims, p, 0) + WeightedSum(dims, ps \ {p})

RECURSIVE WeightTotal(_)
WeightTotal(ps) ==
    IF ps = {} THEN 0
    ELSE LET p == CHOOSE q \in ps : TRUE
         IN perspective_weights[p] + WeightTotal(ps \ {p})

\* C6: the composite is the sum over the five perspectives of weight times
\* that perspective's own dimension score, the weights sum to 1.0 (100
\* hundredths), the composite lies in [0, 100], and a run without issues has
\* composite 100 and can_release true.
C6_Composite ==
    /\ WeightTotal(Range(Perspective)) = 100
    /\ Evaluated =>
          /\ system_health.score
                 = WeightedSum(system_health.dimensions, Range(Perspective))
          /\ system_health.score \in 0..20000
          /\ issues = <<>> => system_health.score = 20000
    /\ (ReportedV6 /\ issues = <<>>) =>
          /\ report.health_score = 20000
          /\ report.can_release = TRUE

\* a reported run whose perspectives of different weight have different scores
C6_Witness ==
    /\ ReportedV6
    /\ DictGet(system_health.dimensions, "PMO", -1) = 200
    /\ DictGet(system_health.dimensions, "UX", -1) < 200
    /\ DictGet(system_health.dimensions, "ARCHITECT", -1) < 200
    /\ report.health_score = system_health.score

----------------------------------------------------------------------------
(* The reports of IntelligentValidatorV5, SmartValidator and ValidatorV5     *)
(* (V5.1), and the exit status their __main__ derives from the report.       *)

\* class IssueLevel of intelligent-validator-v5.py
IssueLevelV5 == <<"BLOCKER", "CRITICAL", "MAJOR", "MINOR", "INFO">>

\* class IssueLevel of smart-validator.py and of validator-v5-fixed.py
IssueLevelSmart == <<"BLOCKER", "CRITICAL", "MAJOR", "MINOR">>

\* ValidationIssue of V5; description is the part of the text that varies
IssueV5(file_path, issue_type, description, level, evidence) ==
    [file_path |-> file_path, issue_type |-> issue_type, description |-> description,
     level |-> level, evidence |-> evidence]

\* Issue of SmartValidator and of V5.1; desc is the part of the text that varies
IssueSmart(file, type, desc, level, evidence) ==
    [file |-> file, type |-> type, desc |-> desc, level |-> level, evidence |-> evidence]

\* [i for i in self.issues if i.level == level]
OfLevel(iss, level) == SelectSeq(iss, LAMBDA i : i.level = level)

\* the report dict of IntelligentValidatorV5.generate_comprehensive_report
ReportV5_ignores_critical(iss, ctxs, funcs) ==
    [version |-> "5.0",
     success |-> Len(OfLevel(iss, "BLOCKER")) = 0,
     statistics |-> [total_files |-> Len(ctxs), total_functions |-> Len(funcs),
                     total_issues |-> Len(iss)],
     issues_by_level |-> [l \in Range(IssueLevelV5) |-> Len(OfLevel(iss, l))],
     critical_issues |-> Take(OfLevel(iss, "BLOCKER") \o OfLevel(iss, "CRITICAL"), 20)]

ReportV5(iss, ctxs, funcs) ==
    [version |-> "5.0",
     success |-> Len(OfLevel(iss, "BLOCKER")) = 0 /\ Len(OfLevel(iss, "CRITICAL")) = 0,
     statistics |-> [total_files |-> Len(ctxs), total_functions |-> Len(funcs),
                     total_issues |-> Len(iss)],
     issues_by_level |-> [l \in Range(IssueLevelV5) |-> Len(OfLevel(iss, l))],
     critical_issues |-> Take(OfLevel(iss, "BLOCKER") \o OfLevel(iss, "CRITICAL"), 20)]

\* the report dict of SmartValidator.generate_report
ReportSmart(iss, funcs, scr, navs) ==
    [success |-> Len(OfLevel(iss, "BLOCKER")) + Len(OfLevel(iss, "CRITICAL")) = 0,
     stats |-> [functions |-> Len(funcs), screens |-> Cardinality(scr),
                navigations |-> Cardinality(navs)],
     issues |-> [blocker |-> Len(OfLevel(iss, "BLOCKER")),
                 critical |-> Len(OfLevel(iss, "CRITICAL")),
                 major |-> Len(OfLevel(iss, "MAJOR")),
                 minor |-> Len(OfLevel(iss, "MINOR")),
                 total |-> Len(iss)],
     details |-> Take(iss, 50)]

\* the report dict of ValidatorV5.generate_report (V5.1)
ReportV51(iss, files_analyzed, functions_found) ==
    LET critical_count == Len(OfLevel(iss, "BLOCKER")) + Len(OfLevel(iss, "CRITICAL"))
    IN [success |-> critical_count = 0,
        files_analyzed |-> files_analyzed,
        functions_found |-> functions_found,
        total_issues |-> Len(iss),
        critical_issues |-> critical_count,
        issues |-> iss]

generate_comprehensive_report_v5 ==
    /\ script = "v5" /\ pc = "report"
    /\ report' = ReportV5(issues, contexts, functions)
    /\ pc' = "exit"
    /\ UNCHANGED <<script, project, issues, functions, contexts, screens, navigations,
                   system_health, iteration_count, fixed_count, exit_status>>

generate_report_smart ==
    /\ script = "smart" /\ pc = "report"
    /\ report' = ReportSmart(issues, functions, screens, navigations)
    /\ pc' = "exit"
    /\ UNCHANGED <<script, project, issues, functions, contexts, screens, navigations,
                   system_health, iteration_count, fixed_count, exit_status>>

\* files_analyzed and functions_found are the counters of the V5.1 object,
\* kept here in iteration_count and fixed_count
generate_report_v51 ==
    /\ script = "v5.1" /\ pc = "report"
    /\ report' = ReportV51(issues, iteration_count, fixed_count)
    /\ pc' = "exit"
    /\ UNCHANGED <<script, project, issues, functions, contexts, screens, navigations,
                   system_health, iteration_count, fixed_count, exit_status>>

\* exit(0 if report["success"] else 1), the same line in the three scripts
main_exit ==
    /\ script \in {"v5", "smart", "v5.1"} /\ pc = "exit"
    /\ exit_status' = IF report.success THEN 0 ELSE 1
    /\ pc' = "done"
    /\ UNCHANGED <<script, project, issues, functions, contexts, screens, navigations,
                   system_health, iteration_count, fixed_count, report>>

(* A validator object of one of the three classes whose checks have recorded *)
(* any issues through add_issue, followed by its report and its exit.        *)

InitReport ==
    /\ script \in {"v5", "smart", "v5.1"}
    /\ project = NoValue
    /\ pc = "add_issue"
    /\ issues = <<>>
    /\ functions = <<>> /\ contexts = <<>>
    /\ screens = {} /\ navigations = {}
    /\ system_health = NoValue
    /\ iteration_count = 0 /\ fixed_count = 0
    /\ report = NoValue
    /\ exit_status = "running"

\* self.issues.append(...) with any level of the script's IssueLevel
add_issue ==
    /\ pc = "add_issue"
    /\ Len(issues) < MaxReportIssues
    /\ \/ /\ script = "v5"
          /\ \E l \in Range(IssueLevelV5) :
                issues' = Append(issues, IssueV5("any", "any", "any", l, "any"))
       \/ /\ script \in {"smart", "v5.1"}
          /\ \E l \in Range(IssueLevelSmart) :
                issues' = Append(issues, IssueSmart("any", "any", "any", l, "any"))
    /\ UNCHANGED <<script, project, pc, functions, contexts, screens, navigations,
                   system_health, iteration_count, fixed_count, report, exit_status>>

\* the checks are over
start_report ==
    /\ script \in {"v5", "smart", "v5.1"} /\ pc = "add_issue"
    /\ pc' = "report"
    /\ UNCHANGED <<script, project, issues, functions, contexts, screens, navigations,
                   system_health, iteration_count, fixed_count, report, exit_status>>

NextReport ==
    \/ add_issue
    \/ start_report
    \/ generate_comprehensive_report_v5
    \/ generate_report_smart
    \/ generate_report_v51
    \/ main_exit

SpecReport == InitReport /\ [][NextReport]_vars

HasBlockerOrCritical(iss) == \E i \in 1..Len(iss) : iss[i].level \in {"BLOCKER", "CRITICAL"}

\* C1: in the reports of V5, SmartValidator and V5.1, success is false if and
\* only if the final issue list holds at least one BLOCKER or CRITICAL issue;
\* issues of the other levels do not change the decision.
C1_SuccessIffNoBlockerOrCritical ==
    (script \in {"v5", "smart", "v5.1"} /\ pc \in {"exit", "done"}) =>
        (report.success = FALSE <=> HasBlockerOrCritical(issues))

\* a report over a list with a CRITICAL issue, lesser issues and no BLOCKER
C1_Witness ==
    /\ script \in {"v5", "smart", "v5.1"} /\ pc \in {"exit", "done"}
    /\ report.success = FALSE
    /\ Len(OfLevel(issues, "CRITICAL")) = 1
    /\ Len(OfLevel(issues, "BLOCKER")) = 0
    /\ Len(OfLevel(issues, "MAJOR")) + Len(OfLevel(issues, "MINOR")) >= 1

----------------------------------------------------------------------------
(* RecursiveValidator.  The files do not change during a run, so every round *)
(* of checks finds the same issues: project.findings gives, for each check   *)
(* in the order in which validate() runs them, how many issues it records.   *)

\* class IssueLevel of recursive-validator.py
IssueLevelRecursive == <<"CRITICAL", "HIGH", "MEDIUM", "LOW">>

\* self.patterns in dict order: the issue type and level of each pattern
patterns ==
    << [name |-> "todo_markers",           level |-> "CRITICAL"],
       [name |-> "placeholder_comments",   level |-> "CRITICAL"],
       [name |-> "empty_implementations",  level |-> "CRITICAL"],
       [name |-> "not_implemented",        level |-> "CRITICAL"],
       [name |-> "mock_data",              level |-> "HIGH"],
       [name |-> "delay_simulation",       level |-> "HIGH"],
       [name |-> "localhost_urls",         level |-> "HIGH"],
       [name |-> "missing_error_handling", level |-> "MEDIUM"] >>

\* the semantic rules and check_api_configuration, with the level they record
\* (check_api_implementation, check_dependency_injection and check_user_flows
\* record nothing)
semantic_rules ==
    << [name |-> "missing_navigation_target", level |-> "CRITICAL"],
       [name |-> "missing_persistence",       level |-> "HIGH"],
       [name |-> "empty_click_handler",       level |-> "HIGH"] >>

api_configuration == << [name |-> "local_api_url", level |-> "CRITICAL"] >>

\* Issue of recursive-validator.py
IssueRecursive(issue_type, level) == [issue_type |-> issue_type, level |-> level]

\* the issues a group of checks appends, check after check
RECURSIVE Findings(_, _, _)
Findings(rules, counts, n) ==
    IF n > Len(rules) THEN <<>>
    ELSE Repeat(IssueRecursive(rules[n].name, rules[n].level), counts[n])
         \o Findings(rules, counts, n + 1)

RECURSIVE Sum(_)
Sum(s) == IF s = <<>> THEN 0 ELSE Head(s) + Sum(Tail(s))

\* auto_fix_issues() that reports a fix
auto_fix_issues_reports_success == TRUE

\* auto_fix_issues(): return False
auto_fix_issues == FALSE

\* generate_report(success)
ReportRecursive(success, iterations, fixed, iss) ==
    [success |-> success,
     iterations |-> iterations,
     fixed_count |-> fixed,
     remaining_issues |-> Len(iss),
     critical_issues |-> Len(OfLevel(iss, "CRITICAL"))]

\* validate(max_iterations: int = 10)
DefaultMaxIterations == 10

NotRecursive == <<functions, contexts, screens, navigations, system_health>>

InitRecursive ==
    /\ script = "recursive"
    /\ \E scan \in [1..Len(patterns) -> 0..MaxRecFindings],
          sem \in [1..Len(semantic_rules) -> 0..1],
          api \in [1..Len(api_configuration) -> 0..1],
          max_iterations \in {0, 1, DefaultMaxIterations} :
          /\ Sum(scan) + Sum(sem) + Sum(api) <= MaxRecFindings
          /\ project = [scan |-> scan, semantic |-> sem, api |-> api,
                        max_iterations |-> max_iterations]
    /\ pc = "while"
    /\ issues = <<>>
    /\ functions = NoValue /\ contexts = NoValue
    /\ screens = NoValue /\ navigations = NoValue
    /\ system_health = NoValue
    /\ iteration_count = 0 /\ fixed_count = 0
    /\ report = NoValue
    /\ exit_status = "running"

\* a round that keeps the issues of the round before it
start_round_keeps_issues ==
    /\ script = "recursive" /\ pc = "while"
    /\ iteration_count < project.max_iterations
    /\ iteration_count' = iteration_count + 1
    /\ pc' = "syntax"
    /\ UNCHANGED <<script, project, issues, fixed_count, report, exit_status, NotRecursive>>

\* a loop that tests `<=` instead of `<`
start_round_off_by_one ==
    /\ script = "recursive" /\ pc = "while"
    /\ iteration_count <= project.max_iterations
    /\ iteration_count' = iteration_count + 1
    /\ issues' = <<>>
    /\ pc' = "syntax"
    /\ UNCHANGED <<script, project, fixed_count, report, exit_status, NotRecursive>>

\* while self.iteration_count < max_iterations: iteration_count += 1; issues.clear()
start_round ==
    /\ script = "recursive" /\ pc = "while"
    /\ iteration_count < project.max_iterations
    /\ iteration_count' = iteration_count + 1
    /\ issues' = <<>>
    /\ pc' = "syntax"
    /\ UNCHANGED <<script, project, fixed_count, report, exit_status, NotRecursive>>

\* the loop ends: return self.generate_report(success=False)
max_iterations_reached ==
    /\ script = "recursive" /\ pc = "while"
    /\ ~(iteration_count < project.max_iterations)
    /\ pc' = "exit"
    /\ report' = ReportRecursive(FALSE, iteration_count, fixed_count, issues)
    /\ UNCHANGED <<script, project, issues, iteration_count, fixed_count, exit_status,
                   NotRecursive>>

\* scan_file_patterns on every Kotlin file
run_syntax_validation ==
    /\ script = "recursive" /\ pc = "syntax"
    /\ issues' = issues \o Findings(patterns, project.scan, 1)
    /\ pc' = "implementation"
    /\ UNCHANGED <<script, project, iteration_count, fixed_count, report, exit_status,
                   NotRecursive>>

\* the semantic rules
run_implementation_validation ==
    /\ script = "recursive" /\ pc = "implementation"
    /\ issues' = issues \o Findings(semantic_rules, project.semantic, 1)
    /\ pc' = "integration"
    /\ UNCHANGED <<script, project, iteration_count, fixed_count, report, exit_status,
                   NotRecursive>>

\* check_api_configuration, check_dependency_injection
run_integration_validation ==
    /\ script = "recursive" /\ pc = "integration"
    /\ issues' = issues \o Findings(api_configuration, project.api, 1)
    /\ pc' = "behavior"
    /\ UNCHANGED <<script, project, iteration_count, fixed_count, report, exit_status,
                   NotRecursive>>

\* check_user_flows: pass
run_behavior_validation ==
    /\ script = "recursive" /\ pc = "behavior"
    /\ pc' = "decide"
    /\ UNCHANGED <<script, project, issues, iteration_count, fixed_count, report,
                   exit_status, NotRecursive>>

\* the end of the round, given what self.auto_fix_issues() returned: success,
\* another round after a fix, or failure
decide_round(fixed) ==
    /\ script = "recursive" /\ pc = "decide"
    /\ LET critical_issues == OfLevel(issues, "CRITICAL")
           high_issues == OfLevel(issues, "HIGH")
       IN IF critical_issues = <<>> /\ high_issues = <<>>
          THEN /\ pc' = "exit"
               /\ report' = ReportRecursive(TRUE, iteration_count, fixed_count, issues)
               /\ UNCHANGED fixed_count
          ELSE IF fixed
          THEN /\ pc' = "while"
               /\ fixed_count' = fixed_count + Len(critical_issues) + Len(high_issues)
               /\ UNCHANGED report
          ELSE /\ pc' = "exit"
               /\ report' = ReportRecursive(FALSE, iteration_count, fixed_count, issues)
               /\ UNCHANGED fixed_count
    /\ UNCHANGED <<script, project, issues, iteration_count, exit_status, NotRecursive>>

\* the end of the round: success, another round after a fix, or failure
end_round == decide_round(auto_fix_issues)

\* __main__ prints the result and ends without calling exit()
main_recursive ==
    /\ script = "recursive" /\ pc = "exit"
    /\ exit_status' = 0
    /\ pc' = "done"
    /\ UNCHANGED <<script, project, issues, iteration_count, fixed_count, report,
                   NotRecursive>>

NextRecursive ==
    \/ start_round
    \/ max_iterations_reached
    \/ run_syntax_validation
    \/ run_implementation_validation
    \/ run_integration_validation
    \/ run_behavior_validation
    \/ end_round
    \/ main_recursive

SpecRecursive == InitRecursive /\ [][NextRecursive]_vars

\* RecursiveValidator.validate with an auto_fix_issues of either outcome (the
\* method is an overridable hook; the one in the file returns False)
end_round_any_fix == \E fixed \in BOOLEAN : decide_round(fixed)

NextRecursiveAnyFix ==
    \/ start_round
    \/ max_iterations_reached
    \/ run_syntax_validation
    \/ run_implementation_validation
    \/ run_integration_validation
    \/ run_behavior_validation
    \/ end_round_any_fix
    \/ main_recursive

SpecRecursiveAnyFix == InitRecursive /\ [][NextRecursiveAnyFix]_vars

\* the interpreter keeps running the call until it returns (every step of
\* the call moves pc)
SpecRecursiveTerminates == SpecRecursiveAnyFix /\ WF_pc(NextRecursiveAnyFix)

\* C3: the exit status of a validator script is 0 when its decision is pass
\* and nonzero when its decision is fail; here for recursive-validator.py run
\* as a program (validate() with its default max_iterations).
C3_ExitStatusFollowsDecision ==
    (script = "recursive" /\ pc = "done"
        /\ project.max_iterations = DefaultMaxIterations) =>
        (exit_status = 0 <=> report.success)

----------------------------------------------------------------------------
(* Source text.  A Kotlin file is its path and its lines; a line is the      *)
(* sequence of its tokens (words, punctuation, string literals), written as  *)
(* Kotlin style writes them: a blank between tokens, none between a name and *)
(* its parenthesis.  The content of a file is its lines joined by the token  *)
(* "\n".  A regular expression of the code is matched on the tokens: \s* and *)
(* \s+ pass over blanks and "\n", \w+ is one word.                           *)

NL == "\n"

Punctuation == {"(", ")", "{", "}", ":", "=", ".", "//", "/*", "*/", NL}

\* a string literal and the text between its quotes
StringLiterals == {"\"home\"", "\"camera\"", "\"\""}

Unquote(literal) ==
    CASE literal = "\"home\"" -> "home"
      [] literal = "\"camera\"" -> "camera"
      [] OTHER -> ""

Numbers == {"42", "1000"}

Annotations == {"@Inject", "@Provides", "@Binds", "@Composable"}

\* \w+
IsWord(tok) == tok \notin Punctuation \cup StringLiterals \cup Annotations

\* `sub in s` for the strings of the model, beyond s = sub
Substrings ==
    { <<"app/src/main/java/ui/AppNavHost.kt", "NavHost">>,
      <<"app/src/main/java/ui/HomeScreen.kt", "Screen">>,
      <<"app/src/main/java/ui/StoryViewModel.kt", "ViewModel">>,
      <<"app/src/main/java/ui/StoryViewModel.kt", "StoryViewModel">>,
      <<"AppNavHost", "NavHost">>,
      <<"HomeScreen", "Screen">>,
      <<"StoryViewModel", "ViewModel">>,
      <<"NavController", "Nav">>,
      <<"http://localhost:8080", "localhost">>,
      <<"http://localhost:8080", "://">>,
      <<"app/src/main/java/domain/GetStoryUseCase.kt", "/domain/">>,
      <<"app/src/main/java/presentation/HomeScreen.kt", "/presentation/">>,
      <<"app/src/main/java/presentation/StoryViewModel.kt", "/presentation/">>,
      <<"app/src/main/java/data/UserRepositoryImpl.kt", "/data/">>,
      <<"app/src/main/java/test/domain/StoryTest.kt", "/test/">>,
      <<"app/src/main/java/test/domain/StoryTest.kt", "/domain/">>,
      <<"GetStoryUseCase", "UseCase">>,
      <<"UserRepositoryImpl", "RepositoryImpl">>,
      <<"UserRepositoryImpl", "Repository">>,
      <<"UserRepositoryImpl", "Impl">>,
      <<"app/src/main/java/data/UserRepositoryImpl.kt", "Repository">>,
      <<"app/src/main/java/data/UserRepositoryImpl.kt", "Impl">>,
      <<"app/src/test/java/data/UserRepositoryImplTest.kt", "Repository">>,
      <<"app/src/test/java/data/UserRepositoryImplTest.kt", "Impl">>,
      <<"app/src/test/java/data/UserRepositoryImplTest.kt", "/test/">>,
      <<"app/src/test/java/data/UserRepositoryImplTest.kt", "Test">>,
      <<"dao.insert(x)", "dao">> }

Contains(s, sub) == s = sub \/ <<s, sub>> \in Substrings

\* `sub in s.lower()` (sub in lower case) and `SUB in s.upper()`
SubstringsLower ==
    { <<"apiService", "api">>, <<"apiService", "service">>,
      <<"ApiService", "api">>, <<"ApiService", "service">>,
      <<"loadStory", "load">>, <<"TODO", "todo">>, <<"FIXME", "fixme">>,
      <<"saveUser", "save">>, <<"deleteUser", "delete">> }

ContainsLower(s, sub) == s = sub \/ <<s, sub>> \in SubstringsLower

RECURSIVE Join(_)
Join(lines) ==
    IF lines = <<>> THEN <<>>
    ELSE IF Len(lines) = 1 THEN lines[1]
    ELSE lines[1] \o <<NL>> \o Join(Tail(lines))

\* f.read()
Content(file) == Join(file.lines)

\* the first index from p on whose token is in S, 0 if there is none
FirstAt(c, p, S) ==
    IF \E i \in p..Len(c) : c[i] \in S
    THEN CHOOSE i \in p..Len(c) : c[i] \in S /\ \A j \in p..(i - 1) : c[j] \notin S
    ELSE 0

\* the last index in p..q whose token is in S, 0 if there is none
LastAt(c, p, q, S) ==
    IF \E i \in p..q : c[i] \in S
    THEN CHOOSE i \in p..q : c[i] \in S /\ \A j \in (i + 1)..q : c[j] \notin S
    ELSE 0

\* \s*: the first index from p on that is not a line break (Len(c) + 1 at the end)
SkipWs(c, p) ==
    IF \E i \in p..Len(c) : c[i] # NL
    THEN CHOOSE i \in p..Len(c) : c[i] # NL /\ \A j \in p..(i - 1) : c[j] = NL
    ELSE Len(c) + 1

\* the token at index i, "" outside the text
At(c, i) == IF i \in 1..Len(c) THEN c[i] ELSE ""

\* `sub in text` for a word or a part of a word
Mentions(c, sub) == \E i \in 1..Len(c) : Contains(c[i], sub)

MentionsLower(c, sub) == \E i \in 1..Len(c) : ContainsLower(c[i], sub)

KotlinFile(path, lines) == [path |-> path, lines |-> lines]

\* the content of a file whose bytes are not UTF-8 text: f.read() raises
\* UnicodeDecodeError
Undecodable == << <<"bytes that are not UTF-8">> >>

\* open(path, 'r', encoding='utf-8') and f.read() succeed
Readable(file) == file.lines # Undecodable

\* the files a project is made of
Files ==
    { KotlinFile("app/src/main/java/data/UserStore.kt",
        << <<"class", "UserStore", "{">>,
           <<"fun", "save", "(", "x", ":", "Int", ")", "{", "}">>,
           <<"}">> >>),
      KotlinFile("app/src/main/java/util/Save.kt",
        << <<"fun", "save", "(", "x", ":", "Int", ")", "{", "}">> >>),
      KotlinFile("app/src/main/java/domain/IRepo.kt",
        << <<"interface", "IRepo", "{">>,
           <<"fun", "load", "(", ")", ":", "Int">>,
           <<"}">> >>),
      KotlinFile("app/src/main/java/data/SyncJob.kt",
        << <<"class", "SyncJob", "{">>,
           <<"fun", "sync", "(", ")", "{">>,
           <<"//", "TODO", ":", "implement">>,
           <<"}">>,
           <<"}">> >>),
      KotlinFile("app/src/main/java/ui/AppNavHost.kt",
        << <<"fun", "AppNavHost", "(", ")", "{">>,
           <<"composable", "(", "\"home\"", ")", "{", "}">>,
           <<"}">> >>),
      KotlinFile("app/src/main/java/ui/HomeScreen.kt",
        << <<"@Composable">>,
           <<"fun", "HomeScreen", "(", "nav", ":", "NavController", ")", "{">>,
           <<"navigate", "(", "\"camera\"", ")">>,
           <<"navigate", "(", "\"home\"", ")">>,
           <<"}">> >>),
      KotlinFile("app/src/main/java/ui/Routes.kt",
        << <<"fun", "routes", "(", ")", "{">>,
           <<"composable", "(", "\"home\"", ")", "{", "}">>,
           <<"navigate", "(", "\"camera\"", ")">>,
           <<"}">> >>),
      KotlinFile("app/src/main/java/model/User.kt",
        << <<"data", "class", "User", "(", "val", "id", ":", "Int", ")">> >>),
      KotlinFile("app/src/main/java/ui/StoryViewModel.kt",
        << <<"class", "StoryViewModel", "{">>,
           <<"@Inject", "lateinit", "var", "apiService", ":", "ApiService">>,
           <<"fun", "loadStory", "(", ")", "{">>,
           <<"apiService", ".", "generateStory", "(", ")">>,
           <<"}">>,
           <<"}">> >>),
      KotlinFile("app/src/main/java/data/Clock.kt",
        << <<"fun", "now", "(", ")", ":", "Int", "{">>,
           <<"delay", "(", "1000", ")">>,
           <<"return", "42">>,
           <<"}">> >>),
      KotlinFile("app/src/main/java/data/Cache.kt",
        << <<"class", "Cache", "{">>,
           <<"fun", "put", "(", "k", ":", "Int", ")", "{", "}">>,
           <<"fun", "put", "(", "k", ":", "String", ")", "{", "}">>,
           <<"}">> >>),
      KotlinFile("app/src/main/java/data/Legacy.kt", Undecodable) }

\* the contents app/build.gradle.kts can have; NoGradle: the file does not exist
NoGradle == <<"no such file">>

GradleFiles ==
    { NoGradle,
      <<"android", "{", "}">>,
      <<"buildConfigField", "(", "API_URL", "http://localhost:8080", ")">>,
      <<"buildConfigField", "(", "API_KEY", "\"\"", ")">> }

\* os.walk lists the files in any order; no path occurs twice
Projects ==
    { [files |-> fs, gradle |-> g] :
        fs \in { s \in UNION { [1..n -> Files] : n \in 0..MaxFiles } :
                    \A i, j \in 1..Len(s) : i # j => s[i].path # s[j].path },
        g \in GradleFiles }

----------------------------------------------------------------------------
(* SmartValidator: functions and their findings *)

\* Python's zero-argument result of a failed re match
NoMatch == [ok |-> FALSE]

\* one match of func_pattern whose `fun` is the token at index f:
\*   (override\s+)?(suspend\s+)?fun\s+(\w+)\s*\(([^)]*)\)(\s*:\s*[^{]+)?\s*(\{[^}]*\}|=)
\* The return-type group is greedy: it runs to the next "{" of the content,
\* and only if no "}" follows that brace does it fall back to the last "=".
func_pattern(c, f) ==
    LET name == SkipWs(c, f + 1)
        lp == SkipWs(c, name + 1)
        rp == FirstAt(c, lp + 1, {")"})
        t == SkipWs(c, rp + 1)
        brace == FirstAt(c, t + 1, {"{"})
        close == IF brace = 0 THEN 0 ELSE FirstAt(c, brace + 1, {"}"})
        eq == LastAt(c, t + 1, IF brace = 0 THEN Len(c) ELSE brace - 1, {"="})
        found(body, has_return, end) ==
            [ok |-> TRUE, name |-> c[name],
             is_suspend |-> At(c, f - 1) = "suspend",
             has_params |-> \E i \in (lp + 1)..(rp - 1) : c[i] # NL,
             has_return |-> has_return, body |-> body, end |-> end]
    IN IF ~(IsWord(At(c, name)) /\ At(c, lp) = "(" /\ rp # 0) THEN NoMatch
       ELSE IF At(c, t) = ":" /\ close # 0 THEN found(SubSeq(c, brace, close), TRUE, close)
       ELSE IF At(c, t) = ":" /\ eq # 0 THEN found(<<"=">>, TRUE, eq)
       ELSE IF At(c, t) = "{" /\ FirstAt(c, t + 1, {"}"}) # 0
            THEN found(SubSeq(c, t, FirstAt(c, t + 1, {"}"})), FALSE,
                       FirstAt(c, t + 1, {"}"}))
       ELSE IF At(c, t) = "=" THEN found(<<"=">>, FALSE, t)
       ELSE NoMatch

\* re.sub(r'//.*', '', body): a line comment ends at the line break
RECURSIVE StripLineComments(_, _)
StripLineComments(body, in_comment) ==
    IF body = <<>> THEN <<>>
    ELSE IF Head(body) = NL THEN <<NL>> \o StripLineComments(Tail(body), FALSE)
    ELSE IF in_comment \/ Head(body) = "//" THEN StripLineComments(Tail(body), TRUE)
    ELSE <<Head(body)>> \o StripLineComments(Tail(body), FALSE)

\* re.sub(r'/\*.*?\*/', '', clean_body, re.DOTALL): re.DOTALL is passed as the
\* count, so `.` does not match a line break: only a block comment that ends
\* on the line on which it starts is removed
RECURSIVE StripBlockComments(_)
StripBlockComments(body) ==
    IF body = <<>> THEN <<>>
    ELSE LET close == FirstAt(body, 2, {"*/"})
             break == FirstAt(body, 2, {NL})
         IN IF Head(body) = "/*" /\ close # 0 /\ (break = 0 \/ close < break)
            THEN StripBlockComments(SubSeq(body, close + 1, Len(body)))
            ELSE <<Head(body)>> \o StripBlockComments(Tail(body))

\* is_empty_function(body)
is_empty_function(body) ==
    \/ body = <<>> \/ body = <<"=">>
    \/ LET clean_body == StripBlockComments(StripLineComments(body, FALSE))
       IN \A i \in 1..Len(clean_body) : clean_body[i] \in {"{", "}", NL}

\* has_todo_marker(body): a marker in body.upper()
has_todo_marker(body) ==
    \E i \in 1..Len(body) :
        \E marker \in {"todo", "fixme", "xxx", "hack", "tbd"} : ContainsLower(body[i], marker)

\* the token at i is the last of its line ($ with re.MULTILINE)
EndOfLine(c, i) == i = Len(c) \/ At(c, i + 1) = NL

\* is_fake_implementation(body): the eight fake_patterns, case ignored
is_fake_implementation(body) ==
    /\ body # <<>>
    /\ \E i \in 1..Len(body) :
          LET next == SkipWs(body, i + 1)
              line_end == IF FirstAt(body, next, {NL}) = 0 THEN Len(body)
                          ELSE FirstAt(body, next, {NL}) - 1
          IN \/ /\ ContainsLower(body[i], "return")
                /\ \/ At(body, next) \in StringLiterals \cup Numbers \cup {"true", "false"}
                      /\ EndOfLine(body, next)
                   \/ \E j \in next..line_end :
                         ContainsLower(body[j], "mock") \/ ContainsLower(body[j], "fake")
             \/ /\ ContainsLower(body[i], "delay")
                /\ At(body, next) = "("
                /\ At(body, SkipWs(body, next + 1)) \in Numbers
                /\ At(body, SkipWs(body, SkipWs(body, next + 1) + 1)) = ")"
             \/ body[i] = "//" /\ ContainsLower(At(body, next), "todo")
             \/ ContainsLower(body[i], "throw") /\ Contains(At(body, next), "NotImplementedError")

\* func_info of extract_functions
func_info(filepath, m) ==
    [name |-> m.name, file |-> filepath, is_suspend |-> m.is_suspend,
     has_params |-> m.has_params, has_return |-> m.has_return, body |-> m.body,
     is_empty |-> is_empty_function(m.body),
     has_todo |-> has_todo_marker(m.body),
     is_fake |-> is_fake_implementation(m.body),
     calls_api |-> MentionsLower(m.body, "api") \/ MentionsLower(m.body, "service"),
     handles_error |-> Mentions(m.body, "try") \/ Mentions(m.body, "catch")
                       \/ Mentions(m.body, "onFailure"),
     updates_ui |-> Mentions(m.body, "_state") \/ Mentions(m.body, "mutableStateOf")]

\* check_function_issues with `if` in place of the two `elif`
check_function_issues_without_elif(info) ==
    (IF info.is_empty
     THEN <<IssueSmart(info.file, "empty_function", info.name, "CRITICAL",
                       <<"fun", info.name, "() { }">>)>>
     ELSE <<>>)
    \o (IF info.has_todo
        THEN <<IssueSmart(info.file, "todo_marker", info.name, "MAJOR",
                          "TODO/FIXME in function body")>>
        ELSE <<>>)
    \o (IF info.is_fake
        THEN <<IssueSmart(info.file, "fake_implementation", info.name, "CRITICAL",
                          "Suspicious return pattern")>>
        ELSE <<>>)
    \o (IF Contains(info.file, "ViewModel") /\ info.calls_api /\ ~info.updates_ui
        THEN <<IssueSmart(info.file, "missing_ui_update", info.name, "MAJOR",
                          "API call without state update")>>
        ELSE <<>>)
    \o (IF Contains(info.file, "ViewModel") /\ info.calls_api /\ ~info.handles_error
        THEN <<IssueSmart(info.file, "missing_error_handling", info.name, "MAJOR",
                          "API call without try-catch")>>
        ELSE <<>>)

\* check_function_issues(func_info): the issues it adds, in order
check_function_issues(info) ==
    (IF info.is_empty
     THEN <<IssueSmart(info.file, "empty_function", info.name, "CRITICAL",
                       <<"fun", info.name, "() { }">>)>>
     ELSE IF info.has_todo
     THEN <<IssueSmart(info.file, "todo_marker", info.name, "MAJOR",
                       "TODO/FIXME in function body")>>
     ELSE IF info.is_fake
     THEN <<IssueSmart(info.file, "fake_implementation", info.name, "CRITICAL",
                       "Suspicious return pattern")>>
     ELSE <<>>)
    \o (IF Contains(info.file, "ViewModel") /\ info.calls_api /\ ~info.updates_ui
        THEN <<IssueSmart(info.file, "missing_ui_update", info.name, "MAJOR",
                          "API call without state update")>>
        ELSE <<>>)
    \o (IF Contains(info.file, "ViewModel") /\ info.calls_api /\ ~info.handles_error
        THEN <<IssueSmart(info.file, "missing_error_handling", info.name, "MAJOR",
                          "API call without try-catch")>>
        ELSE <<>>)

\* the key f"{filepath}::{func_name}" of self.functions
FunctionKey(filepath, name) == [file |-> filepath, name |-> name]

\* extract_functions(filepath, content): re.finditer from token i on; the
\* state is self.functions and self.issues
RECURSIVE extract_functions(_, _, _, _)
extract_functions(st, filepath, c, i) ==
    IF i > Len(c) THEN st
    ELSE IF c[i] = "fun" /\ func_pattern(c, i).ok
    THEN LET info == func_info(filepath, func_pattern(c, i))
         IN extract_functions(
                [functions |-> DictSet(st.functions, FunctionKey(filepath, info.name), info),
                 issues |-> st.issues \o check_function_issues(info)],
                filepath, c, func_pattern(c, i).end + 1)
    ELSE extract_functions(st, filepath, c, i + 1)

\* re.findall(keyword\s*\(\s*["']([^"']+)["'], content): the routes named
\* by navigate("...") or composable("...")
RouteCalls(c, keyword) ==
    { Unquote(c[k]) :
        k \in { k \in 1..Len(c) :
                  /\ c[k] \in StringLiterals /\ Unquote(c[k]) # ""
                  /\ \E i \in 1..Len(c) :
                        /\ Contains(c[i], keyword)
                        /\ At(c, SkipWs(c, i + 1)) = "("
                        /\ k = SkipWs(c, SkipWs(c, i + 1) + 1) } }

\* check_common_issues(filepath, content): the issues it adds, in order; a
\* local address in a content without "://" ends the check before println
check_common_issues(filepath, c) ==
    LET delay == \E i \in 1..Len(c) :
                    /\ Contains(c[i], "delay")
                    /\ At(c, SkipWs(c, i + 1)) = "("
                    /\ At(c, SkipWs(c, SkipWs(c, i + 1) + 1)) \in {"1000"}
                    /\ At(c, SkipWs(c, SkipWs(c, SkipWs(c, i + 1) + 1) + 1)) = ")"
        local == Mentions(c, "localhost") \/ Mentions(c, "127.0.0.1")
                 \/ Mentions(c, "192.168.")
        println == \E i \in 1..Len(c) : Contains(c[i], "println") /\ At(c, i + 1) = "("
    IN (IF delay
        THEN <<IssueSmart(filepath, "hardcoded_delay", "", "MINOR", "delay(1000)")>>
        ELSE <<>>)
       \o (IF local /\ Mentions(c, "://")
           THEN <<IssueSmart(filepath, "local_url", "", "CRITICAL", "localhost/127.0.0.1")>>
           ELSE <<>>)
       \o (IF println /\ ~(local /\ ~Mentions(c, "://"))
           THEN <<IssueSmart(filepath, "debug_print", "", "MINOR", "println(...)")>>
           ELSE <<>>)

\* analyze_file(filepath) on the validator state st; a read that fails is
\* caught and printed, and leaves the state as it was
analyze_file(st, file) ==
    LET c == Content(file)
        fst == extract_functions([functions |-> st.functions, issues |-> st.issues],
                                 file.path, c, 1)
    IN IF ~Readable(file) THEN st
       ELSE
       [functions |-> fst.functions,
        issues |-> fst.issues \o check_common_issues(file.path, c),
        navigations |-> st.navigations \cup RouteCalls(c, "navigate"),
        screens |-> st.screens \cup RouteCalls(c, "composable")]

\* scan_project(): analyze_file on every file, in the order of os.walk
RECURSIVE scan_files(_, _)
scan_files(st, files) ==
    IF files = <<>> THEN st ELSE scan_files(analyze_file(st, Head(files)), Tail(files))

\* `component in key` for a key of self.functions
KeyContains(key, component) ==
    Contains(key.file, component) \/ Contains(key.name, component)

\* open(path).read() for a path of the project
Read(files, path) == Content(files[CHOOSE i \in 1..Len(files) : files[i].path = path])

\* the issue of one function from check_repository_completeness,
\* check_usecase_completeness and check_screen_completeness
repository_issue(item) ==
    IF /\ KeyContains(item.key, "Repository")
       /\ \E op \in {"save", "insert", "update", "delete"} :
             ContainsLower(item.value.name, op)
       /\ ~Mentions(item.value.body, "dao") /\ ~Mentions(item.value.body, "dataStore")
    THEN <<IssueSmart(item.value.file, "missing_persistence", item.value.name, "CRITICAL",
                      "No dao/dataStore call")>>
    ELSE <<>>

usecase_issue(item) ==
    IF KeyContains(item.key, "UseCase") /\ ~MentionsLower(item.value.body, "repository")
    THEN <<IssueSmart(item.value.file, "incomplete_usecase", item.value.name, "MAJOR",
                      "No repository call")>>
    ELSE <<>>

screen_issue(item, files) ==
    IF /\ KeyContains(item.key, "Screen")
       /\ Mentions(Read(files, item.value.file), "@Composable")
       /\ ~Mentions(Read(files, item.value.file), "viewModel")
       /\ ~Mentions(Read(files, item.value.file), "ViewModel")
    THEN <<IssueSmart(item.value.file, "missing_viewmodel", item.value.name, "MAJOR",
                      "No viewModel found")>>
    ELSE <<>>

\* for key, func in self.functions.items(): the issues of one of the checks
RECURSIVE ForEachFunction(_, _, _, _)
ForEachFunction(funcs, check, files, n) ==
    IF n > Len(funcs) THEN <<>>
    ELSE (CASE check = "repository" -> repository_issue(funcs[n])
            [] check = "usecase" -> usecase_issue(funcs[n])
            [] check = "screen" -> screen_issue(funcs[n], files))
         \o ForEachFunction(funcs, check, files, n + 1)

\* the orders in which a Python set can be iterated
Orderings(S) ==
    { s \in [1..Cardinality(S) -> S] : \A i, j \in 1..Cardinality(S) : i # j => s[i] # s[j] }

\* check_navigation_completeness(): one BLOCKER per route of the iteration
missing_screen_issues(routes) ==
    [n \in 1..Len(routes) |->
        IssueSmart("Navigation", "missing_screen", routes[n], "BLOCKER", routes[n])]

\* flows of check_user_flows
flows ==
    << [name |-> "story generation",
        required |-> {"GenerateStoryUseCase", "StoryRepository", "StoryViewModel",
                      "StoryScreen"}],
       [name |-> "camera recognition",
        required |-> {"CameraScreen", "ImageRecognitionRepository", "RecognizeImageUseCase"}],
       [name |-> "parent login",
        required |-> {"ParentLoginScreen", "ParentLoginViewModel", "ParentDashboard"}] >>

\* check_user_flows(): a BLOCKER for every flow with a component in no key
RECURSIVE check_user_flows(_, _)
check_user_flows(funcs, n) ==
    IF n > Len(flows) THEN <<>>
    ELSE (LET missing == { component \in flows[n].required :
                             ~(\E k \in 1..Len(funcs) :
                                   KeyContains(funcs[k].key, component)) }
          IN IF missing # {}
             THEN <<IssueSmart("UserFlow", "incomplete_flow", flows[n].name, "BLOCKER",
                               missing)>>
             ELSE <<>>)
         \o check_user_flows(funcs, n + 1)

\* len(re.findall(annotation, content)) summed over the files of the functions
RECURSIVE CountAnnotation(_, _, _, _)
CountAnnotation(funcs, files, annotation, n) ==
    IF n > Len(funcs) THEN 0
    ELSE Len(SelectSeq(Read(files, funcs[n].value.file), LAMBDA t : Contains(t, annotation)))
         + CountAnnotation(funcs, files, annotation, n + 1)

\* check_dependency_injection()
check_dependency_injection(funcs, files) ==
    IF CountAnnotation(funcs, files, "@Inject", 1)
          > CountAnnotation(funcs, files, "@Provides", 1) * 2
    THEN <<IssueSmart("DependencyInjection", "di_imbalance", "", "MAJOR",
                      "Inject/Provides ratio")>>
    ELSE <<>>

----------------------------------------------------------------------------
(* SmartValidator.validate() and __main__ *)

NotSmart == <<contexts, system_health, iteration_count, fixed_count>>

InitSmart ==
    /\ script = "smart"
    /\ project \in Projects
    /\ pc = "scan"
    /\ issues = <<>>
    /\ functions = <<>>
    /\ screens = {} /\ navigations = {}
    /\ contexts = <<>>
    /\ system_health = NoValue
    /\ iteration_count = 0 /\ fixed_count = 0
    /\ report = NoValue
    /\ exit_status = "running"

scan_project ==
    /\ script = "smart" /\ pc = "scan"
    /\ LET st == scan_files([functions |-> functions, issues |-> issues,
                             navigations |-> navigations, screens |-> screens],
                            project.files)
       IN /\ functions' = st.functions
          /\ issues' = st.issues
          /\ navigations' = st.navigations
          /\ screens' = st.screens
    /\ pc' = "semantic"
    /\ UNCHANGED <<script, project, report, exit_status, NotSmart>>

semantic_analysis ==
    /\ script = "smart" /\ pc = "semantic"
    /\ issues' = issues
                 \o ForEachFunction(functions, "repository", project.files, 1)
                 \o ForEachFunction(functions, "usecase", project.files, 1)
                 \o ForEachFunction(functions, "screen", project.files, 1)
    /\ pc' = "completeness"
    /\ UNCHANGED <<script, project, functions, screens, navigations, report, exit_status,
                   NotSmart>>

\* the set navigations - screens is iterated in an order Python chooses
completeness_check ==
    /\ script = "smart" /\ pc = "completeness"
    /\ \E missing \in Orderings(navigations \ screens) :
          issues' = issues
                    \o missing_screen_issues(missing)
                    \o check_user_flows(functions, 1)
                    \o check_dependency_injection(functions, project.files)
    /\ pc' = "report"
    /\ UNCHANGED <<script, project, functions, screens, navigations, report, exit_status,
                   NotSmart>>

NextSmart ==
    \/ scan_project
    \/ semantic_analysis
    \/ completeness_check
    \/ generate_report_smart
    \/ main_exit

SpecSmart == InitSmart /\ [][NextSmart]_vars

----------------------------------------------------------------------------
(* IntelligentValidatorV5: contexts, function parsing, checks *)

\* the CodeContext build_code_context makes of one file
CodeContext(file) ==
    LET c == Content(file)
        named(i) == c[i] \in {"class", "interface", "object"}
                    /\ IsWord(At(c, SkipWs(c, i + 1)))
        decl == IF \E i \in 1..Len(c) : named(i)
                THEN CHOOSE i \in 1..Len(c) : named(i) /\ \A j \in 1..(i - 1) : ~named(j)
                ELSE 0
    IN [file_path |-> file.path,
        is_interface |-> \E i \in 1..(Len(c) - 1) : c[i] = "interface" /\ c[i + 1] # NL,
        is_abstract |-> \E i \in 1..(Len(c) - 1) : c[i] = "abstract" /\ c[i + 1] = "class",
        is_data_class |-> \E i \in 1..(Len(c) - 1) : c[i] = "data" /\ c[i + 1] = "class",
        is_test_file |-> Contains(file.path, "/test/") \/ Contains(file.path, "Test"),
        class_name |-> IF decl # 0 THEN At(c, SkipWs(c, decl + 1)) ELSE ""]

\* build_code_context(): self.contexts[file_path] = context, file after file;
\* a read that fails is caught and printed, and the file gets no context
RECURSIVE build_contexts(_, _)
build_contexts(ctxs, files) ==
    IF files = <<>> THEN ctxs
    ELSE build_contexts(IF Readable(Head(files))
                        THEN DictSet(ctxs, Head(files).path, CodeContext(Head(files)))
                        ELSE ctxs,
                        Tail(files))

\* the modifiers func_start accepts before `fun`, in the order of the pattern
modifiers ==
    <<"override", "suspend", "inline", "private", "public", "internal", "protected">>

\* the index of `fun` if the line starts with modifiers in that order
RECURSIVE AfterModifiers(_, _, _)
AfterModifiers(line, p, n) ==
    IF n > Len(modifiers) THEN p
    ELSE AfterModifiers(line, IF At(line, p) = modifiers[n] THEN p + 1 ELSE p, n + 1)

\* func_start = re.match(...modifiers... fun\s+ (\w+) \s*\( , line)
func_start(line) ==
    LET f == AfterModifiers(line, 1, 1)
    IN At(line, f) = "fun" /\ IsWord(At(line, f + 1)) /\ At(line, f + 2) = "("

\* parse_kotlin_functions(content, context): FunctionInfo(... file_path=file_path ...)
\* reads the name file_path, which is neither a parameter nor a variable of the
\* method: the first line that matches func_start raises NameError
parse_kotlin_functions(lines, context) ==
    IF \E i \in 1..Len(lines) : func_start(lines[i])
    THEN [raised |-> "NameError", functions |-> <<>>]
    ELSE [raised |-> "", functions |-> <<>>]

\* analyze_kotlin_file(file_path, context): the try block ends at the raise
\* (of the read or of the parser), which is caught and printed; a file without
\* a match has no function to record or check
analyze_kotlin_file(st, file, context) ==
    LET parsed == parse_kotlin_functions(file.lines, context)
    IN IF ~Readable(file) \/ parsed.raised # "" THEN st
       ELSE [functions |-> st.functions \o parsed.functions, issues |-> st.issues]

\* analyze_code_intelligently(): for file_path, context in self.contexts.items()
RECURSIVE analyze_contexts(_, _, _, _)
analyze_contexts(st, ctxs, files, n) ==
    IF n > Len(ctxs) THEN st
    ELSE analyze_contexts(
             analyze_kotlin_file(st,
                 files[CHOOSE i \in 1..Len(files) : files[i].path = ctxs[n].key],
                 ctxs[n].value),
             ctxs, files, n + 1)

\* check_viewmodel_completeness, check_repository_implementation and
\* validate_data_flow: the issues of one entry of self.functions
viewmodel_issues(item) ==
    IF KeyContains(item.key, "ViewModel") /\ ~item.value.context.is_test_file
    THEN (IF /\ item.value.is_suspend \/ Mentions(item.value.body, "viewModelScope.launch")
             /\ \A handled \in {"try", "catch", ".onFailure", ".onError"} :
                   ~Mentions(item.value.body, handled)
          THEN <<IssueV5(item.value.file_path, "missing_error_handling", item.value.name,
                         "MAJOR", "No error handling found")>>
          ELSE <<>>)
         \o (IF /\ \E action \in {"load", "fetch", "save", "update", "delete"} :
                      ContainsLower(item.value.name, action)
                /\ \A state \in {"_state", "_uiState", "mutableStateOf"} :
                      ~Mentions(item.value.body, state)
             THEN <<IssueV5(item.value.file_path, "missing_state_update", item.value.name,
                            "MAJOR", "No state update found")>>
             ELSE <<>>)
    ELSE <<>>

repository_issues(item) ==
    IF /\ KeyContains(item.key, "Repository") /\ KeyContains(item.key, "Impl")
       /\ ~item.value.context.is_test_file
       /\ \E op \in {"save", "insert", "update", "store"} : ContainsLower(item.value.name, op)
       /\ \A storage \in {"dao", "dataStore", "database", "sharedPreferences"} :
             ~Mentions(item.value.body, storage)
    THEN <<IssueV5(item.value.file_path, "missing_persistence", item.value.name,
                   "CRITICAL", "No persistence layer found")>>
    ELSE <<>>

data_flow_issues(item) ==
    IF KeyContains(item.key, "UseCase") /\ ~MentionsLower(item.value.body, "repository")
    THEN <<IssueV5(item.value.file_path, "broken_data_flow", item.value.name, "MAJOR",
                   "No repository call found")>>
    ELSE <<>>

\* for key, func in self.functions.items(): the issues of one of the checks
RECURSIVE ForEachFunctionV5(_, _, _)
ForEachFunctionV5(funcs, check, n) ==
    IF n > Len(funcs) THEN <<>>
    ELSE (CASE check = "viewmodel" -> viewmodel_issues(funcs[n])
            [] check = "repository" -> repository_issues(funcs[n])
            [] check = "data_flow" -> data_flow_issues(funcs[n]))
         \o ForEachFunctionV5(funcs, check, n + 1)

\* nav_calls of check_navigation_completeness: navigate("...") in function bodies
RECURSIVE nav_calls(_, _)
nav_calls(funcs, n) ==
    IF n > Len(funcs) THEN {}
    ELSE (IF Mentions(funcs[n].value.body, "navigate")
          THEN RouteCalls(funcs[n].value.body, "navigate") ELSE {})
         \cup nav_calls(funcs, n + 1)

\* composable_routes: composable("...") in the files whose path has NavHost
RECURSIVE composable_routes(_, _, _)
composable_routes(ctxs, files, n) ==
    IF n > Len(ctxs) THEN {}
    ELSE (IF Contains(ctxs[n].key, "NavHost")
          THEN RouteCalls(Read(files, ctxs[n].key), "composable") ELSE {})
         \cup composable_routes(ctxs, files, n + 1)

\* one BLOCKER per route of the iteration over missing_routes
missing_route_issues(routes) ==
    [n \in 1..Len(routes) |->
        IssueV5("Navigation", "missing_route", routes[n], "BLOCKER", routes[n])]

\* user_stories of validate_user_stories: the components of each story
user_stories ==
    << [name |-> "AI story generation",
        required_components |->
            {"GenerateStoryUseCase", "StoryRepository", "StoryRepositoryImpl",
             "StoryViewModel", "StoryScreen", "generateStory", "AIApiService"}],
       [name |-> "dialogue",
        required_components |->
            {"SendDialogueMessageUseCase", "DialogueRepository", "DialogueRepositoryImpl",
             "DialogueViewModel", "DialogueScreen", "DialogueMessageDao",
             "DialogueMessageEntity"}],
       [name |-> "camera recognition",
        required_components |->
            {"RecognizeImageUseCase", "ImageRecognitionRepository", "CameraViewModel",
             "CameraScreen", "CAMERA"}] >>

\* validate_user_stories(): a BLOCKER for every story with a component that is
\* in no key of self.functions and is the class_name of no context
RECURSIVE validate_user_stories(_, _, _)
validate_user_stories(funcs, ctxs, n) ==
    IF n > Len(user_stories) THEN <<>>
    ELSE (IF \E component \in user_stories[n].required_components :
                /\ ~(\E k \in 1..Len(funcs) : KeyContains(funcs[k].key, component))
                /\ ~(\E k \in 1..Len(ctxs) : ctxs[k].value.class_name = component)
          THEN <<IssueV5("UserStory", "incomplete_user_story", user_stories[n].name,
                         "BLOCKER", "missing components")>>
          ELSE <<>>)
         \o validate_user_stories(funcs, ctxs, n + 1)

\* @Inject\s+(?:constructor|lateinit\s+var)\s+(\w+)\s*:\s*(\w+): the index of
\* the type of the injection that starts at token i, 0 if none starts there
InjectedType(c, i) ==
    LET kind == SkipWs(c, i + 1)
        var == IF At(c, kind) = "lateinit" /\ At(c, SkipWs(c, kind + 1)) = "var"
               THEN SkipWs(c, SkipWs(c, kind + 1) + 1)
               ELSE IF At(c, kind) = "constructor" THEN SkipWs(c, kind + 1)
               ELSE 0
        colon == SkipWs(c, var + 1)
    IN IF /\ Contains(c[i], "@Inject") /\ var # 0 /\ IsWord(At(c, var))
          /\ At(c, colon) = ":" /\ IsWord(At(c, SkipWs(c, colon + 1)))
       THEN SkipWs(c, colon + 1) ELSE 0

\* the keys of injections_needed in the order in which they are first seen
RECURSIVE injections_needed(_, _, _)
injections_needed(needed, c, i) ==
    IF i > Len(c) THEN needed
    ELSE injections_needed(
             IF InjectedType(c, i) # 0 /\ c[InjectedType(c, i)] \notin Range(needed)
             THEN Append(needed, c[InjectedType(c, i)]) ELSE needed,
             c, i + 1)

\* @Provides.*\n\s*fun\s+\w+\([^)]*\)\s*:\s*(\w+) and
\* @Binds.*\n\s*abstract\s+fun\s+\w+\([^)]*\)\s*:\s*(\w+): the types provided
provides_available(c) ==
    { c[t] : t \in { t \in 1..Len(c) :
        \E i \in 1..Len(c) :
            LET nl == FirstAt(c, i + 1, {NL})
                f == IF Contains(c[i], "@Binds") /\ At(c, SkipWs(c, nl)) = "abstract"
                     THEN SkipWs(c, nl) + 1 ELSE SkipWs(c, nl)
                rp == FirstAt(c, f + 3, {")"})
            IN /\ Contains(c[i], "@Provides") \/ Contains(c[i], "@Binds")
               /\ Contains(c[i], "@Binds") => At(c, SkipWs(c, nl)) = "abstract"
               /\ nl # 0 /\ At(c, f) = "fun" /\ IsWord(At(c, f + 1)) /\ At(c, f + 2) = "("
               /\ rp # 0 /\ At(c, SkipWs(c, rp + 1)) = ":"
               /\ t = SkipWs(c, SkipWs(c, rp + 1) + 1) /\ IsWord(c[t]) } }

\* injections_needed and provides_available over the files of self.contexts
RECURSIVE needed_types(_, _, _, _)
needed_types(needed, ctxs, files, n) ==
    IF n > Len(ctxs) THEN needed
    ELSE needed_types(injections_needed(needed, Read(files, ctxs[n].key), 1),
                      ctxs, files, n + 1)

RECURSIVE provided_types(_, _, _)
provided_types(ctxs, files, n) ==
    IF n > Len(ctxs) THEN {}
    ELSE provides_available(Read(files, ctxs[n].key)) \cup provided_types(ctxs, files, n + 1)

\* validate_dependency_injection(): a MAJOR issue for every needed type that
\* no file provides and that Android does not provide
validate_dependency_injection(ctxs, files) ==
    LET needed == needed_types(<<>>, ctxs, files, 1)
        missing == SelectSeq(needed, LAMBDA type :
                       /\ type \notin provided_types(ctxs, files, 1)
                       /\ type \notin {"Context", "Application", "Activity"})
    IN [n \in 1..Len(missing) |->
           IssueV5("DependencyInjection", "missing_di_provider", missing[n], "MAJOR",
                   "Required in files")]

\* validate_api_configuration() on the content of app/build.gradle.kts
validate_api_configuration(gradle) ==
    IF gradle = NoGradle THEN <<>>
    ELSE (IF Mentions(gradle, "localhost") \/ Mentions(gradle, "127.0.0.1")
             \/ Mentions(gradle, "192.168.")
          THEN <<IssueV5("app/build.gradle.kts", "local_api_url", "", "CRITICAL",
                         "localhost/127.0.0.1 found")>>
          ELSE <<>>)
         \o (IF Mentions(gradle, "API_KEY") /\ Mentions(gradle, "\"\"")
             THEN <<IssueV5("app/build.gradle.kts", "empty_api_key", "", "CRITICAL",
                            "Empty API_KEY found")>>
             ELSE <<>>)

\* filter_false_positives() without the tests `issue.file_path in self.contexts`:
\* self.contexts[issue.file_path] raises KeyError for an issue of no scanned file
RECURSIVE filter_false_positives_unguarded(_, _, _)
filter_false_positives_unguarded(filtered_issues, iss, ctxs) ==
    IF iss = <<>> THEN [raised |-> "", issues |-> filtered_issues]
    ELSE LET issue == Head(iss)
             context == DictGet(ctxs, issue.file_path, NoValue)
         IN IF ~DictHas(ctxs, issue.file_path)
            THEN [raised |-> "KeyError", issues |-> filtered_issues]
            ELSE IF issue.issue_type = "empty_implementation" /\ context.is_interface
            THEN filter_false_positives_unguarded(filtered_issues, Tail(iss), ctxs)
            ELSE IF /\ context.is_test_file
                    /\ issue.issue_type \in {"missing_error_handling", "hardcoded_return"}
            THEN filter_false_positives_unguarded(filtered_issues, Tail(iss), ctxs)
            ELSE IF context.is_data_class
            THEN [raised |-> "AttributeError", issues |-> filtered_issues]
            ELSE filter_false_positives_unguarded(Append(filtered_issues, issue),
                                                  Tail(iss), ctxs)

\* filter_false_positives(): the issues kept, or the AttributeError that
\* issue.description.contains(...) raises (str has no method contains) for the
\* first issue that reaches it: one of a data-class file
RECURSIVE filter_false_positives(_, _, _)
filter_false_positives(filtered_issues, iss, ctxs) ==
    IF iss = <<>> THEN [raised |-> "", issues |-> filtered_issues]
    ELSE LET issue == Head(iss)
             known == DictHas(ctxs, issue.file_path)
             context == DictGet(ctxs, issue.file_path, NoValue)
         IN IF issue.issue_type = "empty_implementation" /\ known /\ context.is_interface
            THEN filter_false_positives(filtered_issues, Tail(iss), ctxs)
            ELSE IF /\ known /\ context.is_test_file
                    /\ issue.issue_type \in {"missing_error_handling", "hardcoded_return"}
            THEN filter_false_positives(filtered_issues, Tail(iss), ctxs)
            ELSE IF known /\ context.is_data_class
            THEN [raised |-> "AttributeError", issues |-> filtered_issues]
            ELSE filter_false_positives(Append(filtered_issues, issue), Tail(iss), ctxs)

----------------------------------------------------------------------------
(* IntelligentValidatorV5.validate() and __main__ *)

NotV5 == <<screens, navigations, system_health, iteration_count, fixed_count>>

InitV5 ==
    /\ script = "v5"
    /\ project \in Projects
    /\ pc = "context"
    /\ issues = <<>>
    /\ functions = <<>>
    /\ contexts = <<>>
    /\ screens = {} /\ navigations = {}
    /\ system_health = NoValue
    /\ iteration_count = 0 /\ fixed_count = 0
    /\ report = NoValue
    /\ exit_status = "running"

build_code_context ==
    /\ script = "v5" /\ pc = "context"
    /\ contexts' = build_contexts(contexts, project.files)
    /\ pc' = "analyze"
    /\ UNCHANGED <<script, project, issues, functions, report, exit_status, NotV5>>

analyze_code_intelligently ==
    /\ script = "v5" /\ pc = "analyze"
    /\ LET st == analyze_contexts([functions |-> functions, issues |-> issues],
                                  contexts, project.files, 1)
       IN functions' = st.functions /\ issues' = st.issues
    /\ pc' = "semantic"
    /\ UNCHANGED <<script, project, contexts, report, exit_status, NotV5>>

\* the set nav_calls - composable_routes is iterated in an order Python chooses
semantic_validation ==
    /\ script = "v5" /\ pc = "semantic"
    /\ \E missing_routes \in Orderings(nav_calls(functions, 1)
                                          \ composable_routes(contexts, project.files, 1)) :
          issues' = issues
                    \o ForEachFunctionV5(functions, "viewmodel", 1)
                    \o ForEachFunctionV5(functions, "repository", 1)
                    \o missing_route_issues(missing_routes)
    /\ pc' = "business"
    /\ UNCHANGED <<script, project, functions, contexts, report, exit_status, NotV5>>

business_logic_validation ==
    /\ script = "v5" /\ pc = "business"
    /\ issues' = issues
                 \o validate_user_stories(functions, contexts, 1)
                 \o ForEachFunctionV5(functions, "data_flow", 1)
    /\ pc' = "integration"
    /\ UNCHANGED <<script, project, functions, contexts, report, exit_status, NotV5>>

integration_validation ==
    /\ script = "v5" /\ pc = "integration"
    /\ issues' = issues
                 \o validate_dependency_injection(contexts, project.files)
                 \o validate_api_configuration(project.gradle)
    /\ pc' = "filter"
    /\ UNCHANGED <<script, project, functions, contexts, report, exit_status, NotV5>>

\* an uncaught AttributeError ends the process with status 1 and no report
filter_issues ==
    /\ script = "v5" /\ pc = "filter"
    /\ LET result == filter_false_positives(<<>>, issues, contexts)
       IN IF result.raised # ""
          THEN pc' = "crashed" /\ exit_status' = 1 /\ UNCHANGED issues
          ELSE pc' = "report" /\ issues' = result.issues /\ UNCHANGED exit_status
    /\ UNCHANGED <<script, project, functions, contexts, report, NotV5>>

NextV5 ==
    \/ build_code_context
    \/ analyze_code_intelligently
    \/ semantic_validation
    \/ business_logic_validation
    \/ integration_validation
    \/ filter_issues
    \/ generate_comprehensive_report_v5
    \/ main_exit

SpecV5 == InitV5 /\ [][NextV5]_vars

----------------------------------------------------------------------------
(* Properties of the file-level findings of SmartValidator and V5 *)

\* the one-line function with an empty body
save_line == <<"fun", "save", "(", "x", ":", "Int", ")", "{", "}">>

\* the file is neither an interface nor an abstract class
Concrete(file) == ~CodeContext(file).is_interface /\ ~CodeContext(file).is_abstract

\* the empty_implementation findings of V5 for the file
EmptyImplementations(file) ==
    SelectSeq(issues, LAMBDA i : i.file_path = file.path
                                 /\ i.issue_type = "empty_implementation")

\* C8: in IntelligentValidatorV5 a concrete file that holds the line
\* `fun save(x: Int) { }` ends with exactly one empty_implementation finding
\* for it, of level CRITICAL, whatever stands before or after the line
C8_EmptySaveIsOneCritical ==
    (script = "v5" /\ pc \in {"exit", "done"}) =>
        \A n \in 1..Len(project.files) :
            LET file == project.files[n]
            IN (Concrete(file) /\ \E l \in 1..Len(file.lines) : file.lines[l] = save_line)
               => /\ Len(EmptyImplementations(file)) = 1
                  /\ EmptyImplementations(file)[1].level = "CRITICAL"
                  /\ EmptyImplementations(file)[1].description = "save"

\* the body holds the comment `// TODO: implement` and nothing else
TodoOnlyBody(body) ==
    SelectSeq(body, LAMBDA t : t \notin {"{", "}", NL}) = <<"//", "TODO", ":", "implement">>

\* the findings check_function_issues can add for the function
FunctionFindings(file, name) ==
    SelectSeq(issues,
        LAMBDA i : /\ i.file = file /\ i.desc = name
                   /\ i.type \in {"empty_function", "todo_marker", "fake_implementation",
                                  "missing_ui_update", "missing_error_handling"})

\* C9: in SmartValidator a function whose body is only `// TODO: implement`
\* has exactly one finding from check_function_issues, the MAJOR todo_marker
C9_TodoOnlyBodyIsOneMajor ==
    (script = "smart" /\ pc # "scan") =>
        \A n \in 1..Len(functions) :
            LET info == functions[n].value
            IN TodoOnlyBody(info.body)
               => /\ Len(FunctionFindings(info.file, info.name)) = 1
                  /\ FunctionFindings(info.file, info.name)[1].type = "todo_marker"
                  /\ FunctionFindings(info.file, info.name)[1].level = "MAJOR"

\* the routes some file of the project names in keyword("...")
ProjectRoutes(keyword) ==
    UNION { RouteCalls(Content(project.files[n]), keyword) : n \in 1..Len(project.files) }

\* the navigation findings of the run for the route
NavigationFindings(route) ==
    IF script = "smart"
    THEN SelectSeq(issues, LAMBDA i : i.file = "Navigation" /\ i.desc = route)
    ELSE SelectSeq(issues, LAMBDA i : i.file_path = "Navigation" /\ i.description = route)

\* C10: in SmartValidator and in IntelligentValidatorV5 a route that a
\* navigate("...") call requires and no composable("...") declares has exactly
\* one navigation finding, a BLOCKER, and a declared route has none
C10_OneBlockerPerMissingRoute ==
    (script \in {"smart", "v5"} /\ pc \in {"exit", "done"}) =>
        \A route \in ProjectRoutes("navigate") \cup ProjectRoutes("composable") :
            IF route \in ProjectRoutes("composable")
            THEN NavigationFindings(route) = <<>>
            ELSE /\ Len(NavigationFindings(route)) = 1
                 /\ NavigationFindings(route)[1].level = "BLOCKER"

----------------------------------------------------------------------------
(* Properties of whole runs *)

\* C14: in one run of SmartValidator the issue list never holds two issues
\* with the same rule (type), subject file and evidence
C14_OneFindingPerTriple ==
    script = "smart" =>
        \A m, n \in 1..Len(issues) :
            (/\ issues[m].type = issues[n].type
             /\ issues[m].file = issues[n].file
             /\ issues[m].evidence = issues[n].evidence) => m = n

C12_ReadFailureIsAFinding ==
    (script = "v5" /\ pc \in {"exit", "done"}) =>
        \A n \in 1..Len(project.files) :
            LET file == project.files[n]
            IN IF Readable(file)
               THEN DictHas(contexts, file.path)
               ELSE \E m \in 1..Len(issues) : issues[m].file_path = file.path

\* C13: when file discovery finds no Kotlin file, IntelligentValidatorV5 stops
\* before any check: no finding is recorded and no report is generated
C13_NoFilesIsFatal ==
    (script = "v5" /\ project.files = <<>>) =>
        (issues = <<>> /\ pc \notin {"exit", "done"})

----------------------------------------------------------------------------
(* The detailed list of the reports of SmartValidator and of                 *)
(* IntelligentValidator (V4).  A check records the findings of one rule, one *)
(* for every file it flags, so the lists grow by runs of one level.  For V4  *)
(* this is generate_report() called on an object whose checks have recorded  *)
(* issues: its validate() calls self.check_state_management(), which the     *)
(* class does not define, and raises AttributeError before the report.       *)

\* IssueLevel of intelligent-validator-v4.py
IssueLevelV4 == <<"BLOCKER", "CRITICAL", "MAJOR", "MINOR">>

\* the report dict of IntelligentValidator.generate_report (V4)
ReportV4(iss, funcs) ==
    LET must_fix == Len(OfLevel(iss, "BLOCKER")) + Len(OfLevel(iss, "CRITICAL"))
    IN [success |-> must_fix = 0,
        total_functions |-> Len(funcs),
        total_issues |-> Len(iss),
        blockers |-> Len(OfLevel(iss, "BLOCKER")),
        criticals |-> Len(OfLevel(iss, "CRITICAL")),
        majors |-> Len(OfLevel(iss, "MAJOR")),
        minors |-> Len(OfLevel(iss, "MINOR")),
        must_fix |-> must_fix,
        issues |-> Take(iss, 20)]

\* the numbers of files one rule flags in a run
FlaggedFiles == {1, 20, 50}

InitDetails ==
    /\ script \in {"smart", "v4"}
    /\ project = NoValue
    /\ pc = "check"
    /\ issues = <<>>
    /\ functions = <<>> /\ contexts = <<>>
    /\ screens = {} /\ navigations = {}
    /\ system_health = NoValue
    /\ iteration_count = 0 /\ fixed_count = 0
    /\ report = NoValue
    /\ exit_status = "running"

\* one check of the validator: add_issue once per flagged file, all of the
\* level of its rule; iteration_count counts the checks that have run
run_check ==
    /\ script \in {"smart", "v4"} /\ pc = "check"
    /\ iteration_count < MaxChecks
    /\ \E count \in FlaggedFiles, n \in 1..4 :
          issues' = issues \o
                    [k \in 1..count |->
                        IF script = "smart"
                        THEN IssueSmart("any", "any", "any", IssueLevelSmart[n], "any")
                        ELSE IssueV5("any", "any", "any", IssueLevelV4[n], "any")]
    /\ iteration_count' = iteration_count + 1
    /\ UNCHANGED <<script, project, pc, functions, contexts, screens, navigations,
                   system_health, fixed_count, report, exit_status>>

\* the checks are over
checks_done ==
    /\ script \in {"smart", "v4"} /\ pc = "check"
    /\ pc' = "report"
    /\ UNCHANGED <<script, project, issues, functions, contexts, screens, navigations,
                   system_health, iteration_count, fixed_count, report, exit_status>>

generate_report_v4 ==
    /\ script = "v4" /\ pc = "report"
    /\ report' = ReportV4(issues, functions)
    /\ pc' = "exit"
    /\ UNCHANGED <<script, project, issues, functions, contexts, screens, navigations,
                   system_health, iteration_count, fixed_count, exit_status>>

\* __main__ of intelligent-validator-v4.py
main_v4 ==
    /\ script = "v4" /\ pc = "exit"
    /\ exit_status' = IF report.success THEN 0 ELSE 1
    /\ pc' = "done"
    /\ UNCHANGED <<script, project, issues, functions, contexts, screens, navigations,
                   system_health, iteration_count, fixed_count, report>>

NextDetails ==
    \/ run_check
    \/ checks_done
    \/ generate_report_smart
    \/ generate_report_v4
    \/ main_exit
    \/ main_v4

SpecDetails == InitDetails /\ [][NextDetails]_vars

\* the place of a level in the order of severity, 1 the highest
SeverityRank(level) ==
    CHOOSE n \in 1..4 : IssueLevelV4[n] = level

\* the detailed list written to the report
DetailedList == IF script = "smart" THEN report.details ELSE report.issues

\* C15: the detailed list of the report of SmartValidator (first 50) and of
\* IntelligentValidator V4 (first 20) holds the findings of highest severity:
\* no finding left out of it is of a strictly higher severity than one in it
C15_DetailsHoldHighestSeverity ==
    (script \in {"smart", "v4"} /\ pc \in {"exit", "done"}) =>
        \A m \in 1..Len(DetailedList) :
            \A n \in (Len(DetailedList) + 1)..Len(issues) :
                SeverityRank(issues[n].level) >= SeverityRank(DetailedList[m].level)

\* C16: for a fixed list of input files the order of the findings of
\* SmartValidator is the same in every run: when check_navigation_completeness
\* starts, the findings it appends do not depend on the order in which the set
\* navigations - screens is iterated
C16_FindingOrderIsFixed ==
    (script = "smart" /\ pc = "completeness") =>
        \A first_run, second_run \in Orderings(navigations \ screens) :
            missing_screen_issues(first_run) = missing_screen_issues(second_run)

----------------------------------------------------------------------------
(* IntelligentValidatorV5: the checks of one function.  No run of validate() *)
(* gets to them (parse_kotlin_functions raises before it returns a           *)
(* function), so they are called here on the function they are given.  A     *)
(* body is the sequence of the pieces of its text, blanks and line breaks    *)
(* included, and its text is their concatenation.                            *)

WhiteSpace == {" ", NL}

\* the pieces a body is written with between its braces
BodyPieces == {" ", NL, "//", "/*", "*/", "TODO", "return computeX()"}

\* two comment marks side by side would read as other marks ("*/" "/*" holds
\* "//"); the bodies are written with something between them
WellSpaced(body) ==
    \A i \in 1..(Len(body) - 1) :
        ~(body[i] \in {"//", "/*", "*/"} /\ body[i + 1] \in {"//", "/*", "*/"})

\* the block bodies handed to has_real_implementation: no text, "{}", and
\* braces around at most MaxInner pieces
Bodies ==
    {<<>>} \cup
    { <<"{">> \o inner \o <<"}">> :
        inner \in { s \in UNION { [1..n -> BodyPieces] : n \in 0..MaxInner } :
                       WellSpaced(s) } }

\* re.sub(r'/\*.*?\*/', '', body, flags=re.DOTALL): from a "/*" to the first
\* "*/" after it, over line breaks
RECURSIVE SubBlockComments(_)
SubBlockComments(body) ==
    IF body = <<>> THEN <<>>
    ELSE LET close == FirstAt(body, 2, {"*/"})
         IN IF Head(body) = "/*" /\ close # 0
            THEN SubBlockComments(SubSeq(body, close + 1, Len(body)))
            ELSE <<Head(body)>> \o SubBlockComments(Tail(body))

\* body.strip()
Strip(body) ==
    IF \A i \in 1..Len(body) : body[i] \in WhiteSpace THEN <<>>
    ELSE SubSeq(body,
                CHOOSE i \in 1..Len(body) :
                    body[i] \notin WhiteSpace /\ \A j \in 1..(i - 1) : body[j] \in WhiteSpace,
                CHOOSE i \in 1..Len(body) :
                    body[i] \notin WhiteSpace
                    /\ \A j \in (i + 1)..Len(body) : body[j] \in WhiteSpace)

\* clean_code_body(body)
clean_code_body(body) == Strip(SubBlockComments(StripLineComments(body, FALSE)))

\* re.match(r'^\s*\{\s*(//.*TODO|//.*FIXME|/\*.*\*/)\s*\}\s*$', body, re.DOTALL):
\* the text is a "{" and a "}" with, between them, something that starts with
\* "//" and ends with TODO or FIXME, or starts with "/*" and ends with "*/"
OnlyPlaceholderComment(body) ==
    LET text == Strip(body)
        inside == IF Len(text) >= 2 THEN Strip(SubSeq(text, 2, Len(text) - 1)) ELSE <<>>
    IN /\ Len(text) >= 2 /\ text[1] = "{" /\ text[Len(text)] = "}"
       /\ Len(inside) >= 2
       /\ \/ inside[1] = "//" /\ inside[Len(inside)] \in {"TODO", "FIXME"}
          \/ inside[1] = "/*" /\ inside[Len(inside)] = "*/"

\* has_real_implementation(body, is_single_expression)
has_real_implementation(body, is_single_expression) ==
    IF body = <<>> THEN FALSE
    ELSE IF is_single_expression
    THEN clean_code_body(body) \notin {<<"{", "}">>, <<"{", " ", "}">>, <<>>}
    ELSE IF clean_code_body(body) \in {<<"{", "}">>, <<"{", " ", "}">>, <<>>}
    THEN FALSE
    ELSE ~OnlyPlaceholderComment(body)

InitBody ==
    /\ script = "v5.has_real_implementation"
    /\ project \in [body : Bodies, is_single_expression : BOOLEAN]
    /\ pc = "call"
    /\ issues = <<>>
    /\ functions = <<>> /\ contexts = <<>>
    /\ screens = {} /\ navigations = {}
    /\ system_health = NoValue
    /\ iteration_count = 0 /\ fixed_count = 0
    /\ report = NoValue
    /\ exit_status = "running"

\* the call returns; report holds the value returned
call_has_real_implementation ==
    /\ script = "v5.has_real_implementation" /\ pc = "call"
    /\ report' = has_real_implementation(project.body, project.is_single_expression)
    /\ pc' = "returned"
    /\ UNCHANGED <<script, project, issues, functions, contexts, screens, navigations,
                   system_health, iteration_count, fixed_count, exit_status>>

NextBody == call_has_real_implementation

SpecBody == InitBody /\ [][NextBody]_vars

\* what is left of the body without its comments and without any white space
WithoutCommentsAndSpace(body) ==
    SelectSeq(SubBlockComments(StripLineComments(body, FALSE)),
              LAMBDA t : t \notin WhiteSpace)

\* C17: has_real_implementation returns False for a block body exactly when
\* nothing, or only an opening and a closing brace, is left of the body once
\* its comments and all its white space are removed
C17_EmptyExactlyWhenOnlyBraces ==
    (script = "v5.has_real_implementation" /\ pc = "returned"
        /\ ~project.is_single_expression) =>
        (report = FALSE <=>
            WithoutCommentsAndSpace(project.body) \in {<<>>, <<"{", "}">>})

----------------------------------------------------------------------------
(* IntelligentValidatorV5: should_check_implementation,                      *)
(* check_function_implementation and check_repository_implementation on one  *)
(* function *)

\* FunctionInfo as parse_kotlin_functions fills it
FunctionInfo(name, file_path, body, is_abstract, is_single_expression, context) ==
    [name |-> name, file_path |-> file_path, body |-> body,
     is_abstract |-> is_abstract \/ context.is_interface,
     is_suspend |-> FALSE,
     is_single_expression |-> is_single_expression,
     has_implementation |-> has_real_implementation(body, is_single_expression),
     context |-> context]

\* should_check_implementation(func)
should_check_implementation(func) ==
    IF func.is_abstract THEN FALSE
    ELSE IF func.context.is_interface /\ func.body = <<>> THEN FALSE
    ELSE IF func.context.is_test_file
            /\ func.name \in {"setUp", "tearDown", "before", "after"} THEN FALSE
    ELSE IF func.context.is_data_class
            /\ func.name \in {"equals", "hashCode", "toString", "copy"} THEN FALSE
    ELSE TRUE

\* \s*: the first index from p on that is not white space
SkipSpace(c, p) ==
    IF \E i \in p..Len(c) : c[i] \notin WhiteSpace
    THEN CHOOSE i \in p..Len(c) :
             c[i] \notin WhiteSpace /\ \A j \in p..(i - 1) : c[j] \in WhiteSpace
    ELSE Len(c) + 1

\* ^\s* under re.MULTILINE: only white space stands between a line start and i
AtLineStart(c, i) ==
    \/ \A j \in 1..(i - 1) : c[j] \in WhiteSpace
    \/ \E j \in 1..(i - 1) : c[j] = NL /\ \A k \in (j + 1)..(i - 1) : c[k] \in WhiteSpace

\* \s*$ under re.MULTILINE: only white space stands between i and a line end
AtLineEnd(c, i) ==
    \/ \A j \in (i + 1)..Len(c) : c[j] \in WhiteSpace
    \/ \E j \in (i + 1)..Len(c) : c[j] = NL /\ \A k \in (i + 1)..(j - 1) : c[k] \in WhiteSpace

\* \s+ and the next piece: its index, 0 if no white space follows i
AfterSpace(c, i) == IF At(c, i + 1) \in WhiteSpace THEN SkipSpace(c, i + 1) ELSE 0

\* suspicious_patterns of check_function_implementation, in their order
suspicious_patterns ==
    << [issue_name |-> "NotImplementedError", level |-> "CRITICAL"],
       [issue_name |-> "TODO() placeholder", level |-> "CRITICAL"],
       [issue_name |-> "TODO comment", level |-> "MAJOR"],
       [issue_name |-> "FIXME comment", level |-> "MAJOR"],
       [issue_name |-> "hardcoded string return", level |-> "MINOR"],
       [issue_name |-> "hardcoded number return", level |-> "MINOR"] >>

\* re.search(pattern, clean_body, re.MULTILINE) for the pattern of the name
SearchPattern(issue_name, c) ==
    \E i \in 1..Len(c) :
        CASE issue_name = "NotImplementedError" ->
                 /\ c[i] = "throw" /\ AtLineStart(c, i)
                 /\ At(c, AfterSpace(c, i)) = "NotImplementedError"
          [] issue_name = "TODO() placeholder" ->
                 /\ c[i] = "TODO" /\ AtLineStart(c, i)
                 /\ At(c, SkipSpace(c, i + 1)) = "("
                 /\ At(c, SkipSpace(c, SkipSpace(c, i + 1) + 1)) = ")"
          [] issue_name = "TODO comment" ->
                 c[i] = "//" /\ At(c, SkipSpace(c, i + 1)) = "TODO"
          [] issue_name = "FIXME comment" ->
                 c[i] = "//" /\ At(c, SkipSpace(c, i + 1)) = "FIXME"
          [] issue_name = "hardcoded string return" ->
                 /\ c[i] = "return" /\ AtLineStart(c, i)
                 /\ At(c, AfterSpace(c, i)) \in StringLiterals
                 /\ AtLineEnd(c, AfterSpace(c, i))
          [] issue_name = "hardcoded number return" ->
                 /\ c[i] = "return" /\ AtLineStart(c, i)
                 /\ At(c, AfterSpace(c, i)) \in Numbers
                 /\ AtLineEnd(c, AfterSpace(c, i))

\* name.startswith(prefix) for the names of the model
StartsWith(name, prefix) == <<name, prefix>> \in {<<"getCount", "get">>}

\* the loop over suspicious_patterns from the n-th pattern on
RECURSIVE suspicious_issues(_, _)
suspicious_issues(func, n) ==
    IF n > Len(suspicious_patterns) THEN <<>>
    ELSE LET issue_name == suspicious_patterns[n].issue_name
         IN (IF ~SearchPattern(issue_name, clean_code_body(func.body)) THEN <<>>
             ELSE IF issue_name = "hardcoded string return" /\ StartsWith(func.name, "get")
             THEN <<>>
             ELSE IF issue_name = "hardcoded number return"
                     /\ func.name \in {"hashCode", "compareTo"}
             THEN <<>>
             ELSE <<IssueV5(func.file_path, "suspicious_implementation",
                            <<func.name, issue_name>>, suspicious_patterns[n].level,
                            issue_name)>>)
            \o suspicious_issues(func, n + 1)

\* check_function_implementation(func): the issues it adds
check_function_implementation(func) ==
    IF ~func.has_implementation
    THEN <<IssueV5(func.file_path, "empty_implementation", func.name, "CRITICAL",
                   "signature")>>
    ELSE suspicious_issues(func, 1)

\* the names, bodies and files of the functions handed to the checks
FunctionNames == {"getCount", "hashCode", "compareTo", "saveUser", "deleteUser", "run"}

FunctionBodies ==
    { <<"{", " ", "}">>,
      <<"{", NL, "//", " ", "TODO", NL, "return", " ", "computeX()", NL, "}">>,
      <<"{", NL, "return", " ", "computeX()", " ", "//", " ", "FIXME", NL, "}">>,
      <<"{", NL, "throw", " ", "NotImplementedError", "(", ")", NL, "}">>,
      <<"{", " ", "throw", " ", "NotImplementedError", "(", ")", " ", "}">>,
      <<"{", NL, "TODO", "(", ")", NL, "}">>,
      <<"{", " ", "TODO", "(", ")", " ", "}">>,
      <<"{", NL, "return", " ", "\"home\"", NL, "}">>,
      <<"{", NL, "return", " ", "42", NL, "}">>,
      <<"{", NL, "dao.insert(x)", NL, "}">>,
      <<"{", NL, "return", " ", "computeX()", NL, "}">> }

FunctionFiles ==
    { "app/src/main/java/data/UserRepositoryImpl.kt",
      "app/src/main/java/data/UserStore.kt",
      "app/src/test/java/data/UserRepositoryImplTest.kt" }

\* the CodeContext build_code_context gives the file of the function
FunctionContext(file_path, is_interface) ==
    [file_path |-> file_path, is_interface |-> is_interface, is_abstract |-> FALSE,
     is_data_class |-> FALSE,
     is_test_file |-> Contains(file_path, "/test/") \/ Contains(file_path, "Test"),
     class_name |-> ""]

InitFunction ==
    /\ script = "v5.function"
    /\ project \in { FunctionInfo(name, file_path, body, FALSE, FALSE,
                                  FunctionContext(file_path, is_interface)) :
                        name \in FunctionNames, file_path \in FunctionFiles,
                        body \in FunctionBodies, is_interface \in BOOLEAN }
    /\ pc = "analyze"
    /\ issues = <<>>
    /\ functions = <<>> /\ contexts = <<>>
    /\ screens = {} /\ navigations = {}
    /\ system_health = NoValue
    /\ iteration_count = 0 /\ fixed_count = 0
    /\ report = NoValue
    /\ exit_status = "running"

\* the body of the loop of analyze_kotlin_file for the function func
record_and_check_function ==
    /\ script = "v5.function" /\ pc = "analyze"
    /\ functions' = DictSet(functions, FunctionKey(project.file_path, project.name), project)
    /\ issues' = issues \o (IF should_check_implementation(project)
                            THEN check_function_implementation(project)
                            ELSE <<>>)
    /\ pc' = "semantic"
    /\ UNCHANGED <<script, project, contexts, screens, navigations, system_health,
                   iteration_count, fixed_count, report, exit_status>>

\* check_repository_implementation() over self.functions
check_repository_implementation ==
    /\ script = "v5.function" /\ pc = "semantic"
    /\ issues' = issues \o ForEachFunctionV5(functions, "repository", 1)
    /\ pc' = "checked"
    /\ UNCHANGED <<script, project, functions, contexts, screens, navigations,
                   system_health, iteration_count, fixed_count, report, exit_status>>

NextFunction ==
    \/ record_and_check_function
    \/ check_repository_implementation

SpecFunction == InitFunction /\ [][NextFunction]_vars

\* the checks of the function have run
FunctionChecked == script = "v5.function" /\ pc \in {"semantic", "checked"}

\* the findings of the run of the given type and level
FindingsOf(issue_type, level) ==
    SelectSeq(issues, LAMBDA i : i.issue_type = issue_type /\ i.level = level)

\* the body holds a `// TODO` or `// FIXME` comment
HasPlaceholderComment(body) ==
    \E i \in 1..Len(body) :
        body[i] = "//" /\ At(body, SkipSpace(body, i + 1)) \in {"TODO", "FIXME"}

\* the body throws NotImplementedError or calls TODO()
HasPlaceholderCode(body) ==
    \E i \in 1..Len(body) :
        \/ body[i] = "throw" /\ At(body, SkipSpace(body, i + 1)) = "NotImplementedError"
        \/ body[i] = "TODO" /\ At(body, SkipSpace(body, i + 1)) = "("

\* C18: in check_function_implementation a checked function that has an
\* implementation gets a MAJOR finding if its body holds a `// TODO` or
\* `// FIXME` comment, and a CRITICAL finding if its body throws
\* NotImplementedError or calls TODO()
C18_PlaceholderSeverity ==
    (FunctionChecked /\ should_check_implementation(project)
        /\ project.has_implementation) =>
        /\ HasPlaceholderComment(project.body)
              => FindingsOf("suspicious_implementation", "MAJOR") # <<>>
        /\ HasPlaceholderCode(project.body)
              => FindingsOf("suspicious_implementation", "CRITICAL") # <<>>

\* C19: check_function_implementation gives no hardcoded-return finding, for
\* a string or for a number, to a function whose name starts with `get`, nor
\* to hashCode or compareTo
C19_NoConstantFindingForAccessors ==
    (FunctionChecked
        /\ (StartsWith(project.name, "get") \/ project.name \in {"hashCode", "compareTo"})) =>
        \A n \in 1..Len(issues) :
            issues[n].evidence \notin {"hardcoded string return", "hardcoded number return"}

\* the body names a persistence layer
MentionsPersistence(body) ==
    \E storage \in {"dao", "dataStore", "database", "sharedPreferences"} :
        Mentions(body, storage)

\* C20: after check_repository_implementation, a non-test function of a
\* repository implementation file whose name contains save, insert, update or
\* delete and whose body names no persistence layer has a missing_persistence
\* finding, and a function whose body names one has none
C20_PersistenceFinding ==
    (script = "v5.function" /\ pc = "checked") =>
        /\ (/\ Contains(project.file_path, "Repository")
            /\ Contains(project.file_path, "Impl")
            /\ ~project.context.is_test_file
            /\ \E op \in {"save", "insert", "update", "delete"} :
                  ContainsLower(project.name, op)
            /\ ~MentionsPersistence(project.body))
              => FindingsOf("missing_persistence", "CRITICAL") # <<>>
        /\ MentionsPersistence(project.body)
              => FindingsOf("missing_persistence", "CRITICAL") = <<>>

----------------------------------------------------------------------------
(* The rounds of RecursiveValidator.validate *)

\* C21: auto_fix_issues returns False on every call, so a run of
\* RecursiveValidator.validate never starts a second round and never counts a
\* fix: iteration_count stays at most 1 and fixed_count stays 0, and every
\* report of a run with max_iterations >= 1 has iterations = 1 and
\* fixed_count = 0
C21_OneRoundNoFix ==
    script = "recursive" =>
        /\ iteration_count <= 1
        /\ fixed_count = 0
        /\ (pc \in {"exit", "done"} /\ project.max_iterations >= 1) =>
              (report.iterations = 1 /\ report.fixed_count = 0)

\* a report after a round that found a CRITICAL issue, with rounds left
C21_Witness ==
    /\ script = "recursive" /\ pc = "exit"
    /\ project.max_iterations = DefaultMaxIterations
    /\ OfLevel(issues, "CRITICAL") # <<>>
    /\ report.success = FALSE
    /\ report.iterations = 1

\* the issues one round of the checks records in the project
RoundFindings ==
    Findings(patterns, project.scan, 1)
    \o Findings(semantic_rules, project.semantic, 1)
    \o Findings(api_configuration, project.api, 1)

\* C24: the report returned by RecursiveValidator.validate has success = true
\* exactly when max_iterations >= 1 and the round it ran recorded no CRITICAL
\* and no HIGH issue, whatever MEDIUM and LOW issues it recorded, and its
\* remaining_issues is the number of issues of the last round alone
C24_SuccessIffNoCriticalOrHigh ==
    (script = "recursive" /\ pc \in {"exit", "done"}) =>
        /\ report.success <=>
              /\ project.max_iterations >= 1
              /\ OfLevel(RoundFindings, "CRITICAL") = <<>>
              /\ OfLevel(RoundFindings, "HIGH") = <<>>
        /\ report.remaining_issues =
              IF iteration_count = 0 THEN 0 ELSE Len(RoundFindings)
        /\ report.critical_issues =
              IF iteration_count = 0 THEN 0 ELSE Len(OfLevel(RoundFindings, "CRITICAL"))

\* a successful report over a round that recorded MEDIUM issues only
C24_Witness ==
    /\ script = "recursive" /\ pc = "exit"
    /\ report.success
    /\ OfLevel(issues, "MEDIUM") # <<>>
    /\ report.remaining_issues = Len(OfLevel(issues, "MEDIUM"))

----------------------------------------------------------------------------
(* WeightedCommentChecker (weighted-comment-check.py).  The scores are       *)
(* Python floats; they are computed here as exact fractions <<n, d>>, so the *)
(* rounding of the float operations is left out.  A file is given by what    *)
(* analyze_file extracts from its lines: its classes with the result of      *)
(* check_class_comment, its complex methods, and its comment line counts.    *)

RECURSIVE GCD(_, _)
GCD(a, b) == IF b = 0 THEN a ELSE GCD(b, a % b)

\* the fraction n / d in lowest terms (n >= 0, d > 0)
Frac(n, d) == IF n = 0 THEN <<0, 1>> ELSE <<n \div GCD(n, d), d \div GCD(n, d)>>

FracAdd(a, b) == Frac(a[1] * b[2] + b[1] * a[2], a[2] * b[2])

FracMul(a, b) == Frac(a[1] * b[1], a[2] * b[2])

\* a / b for b > 0
FracDiv(a, b) == Frac(a[1] * b[2], a[2] * b[1])

FracLeq(a, b) == a[1] * b[2] <= b[1] * a[2]

Whole(n) == <<n, 1>>

\* LAYER_WEIGHTS
LAYER_WEIGHTS ==
    << [key |-> "domain",
        value |-> << [key |-> "usecase",    value |-> Frac(15, 10)],
                     [key |-> "repository", value |-> Frac(15, 10)],
                     [key |-> "model",      value |-> Frac(15, 10)],
                     [key |-> "default",    value |-> Frac(13, 10)] >>],
       [key |-> "presentation",
        value |-> << [key |-> "viewmodel",  value |-> Frac(13, 10)],
                     [key |-> "screen",     value |-> Frac(13, 10)],
                     [key |-> "state",      value |-> Frac(13, 10)],
                     [key |-> "default",    value |-> Frac(11, 10)] >>],
       [key |-> "data",
        value |-> << [key |-> "repository_impl", value |-> Frac(12, 10)],
                     [key |-> "manager",         value |-> Frac(12, 10)],
                     [key |-> "entity",          value |-> Frac(12, 10)],
                     [key |-> "default",         value |-> Frac(10, 10)] >>] >>

\* LAYER_WEIGHTS['test'] and LAYER_WEIGHTS['other']
FlatLayerWeights ==
    << [key |-> "test", value |-> Frac(5, 10)], [key |-> "other", value |-> Frac(10, 10)] >>

\* CHINESE_REQUIREMENTS, in dict order
CHINESE_REQUIREMENTS ==
    << [key |-> "domain",       value |-> Frac(8, 10)],
       [key |-> "presentation", value |-> Frac(7, 10)],
       [key |-> "data",         value |-> Frac(6, 10)],
       [key |-> "test",         value |-> Frac(4, 10)],
       [key |-> "other",        value |-> Frac(5, 10)] >>

\* get_layer(file_path)
get_layer(file_path) ==
    IF Contains(file_path, "/test/") \/ Contains(file_path, "/androidTest/") THEN "test"
    ELSE IF Contains(file_path, "/domain/") THEN "domain"
    ELSE IF Contains(file_path, "/presentation/") THEN "presentation"
    ELSE IF Contains(file_path, "/data/") THEN "data"
    ELSE "other"

\* get_class_type(class_name, file_path)
get_class_type(class_name, file_path) ==
    LET layer == get_layer(file_path)
    IN  IF layer = "domain"
        THEN IF Contains(class_name, "UseCase") THEN "usecase"
             ELSE IF Contains(class_name, "Repository") /\ ~Contains(class_name, "Impl")
             THEN "repository"
             ELSE IF \E keyword \in {"Model", "Entity", "State"} : Contains(class_name, keyword)
             THEN "model"
             ELSE "default"
        ELSE IF layer = "presentation"
        THEN IF Contains(class_name, "ViewModel") THEN "viewmodel"
             ELSE IF Contains(class_name, "Screen") THEN "screen"
             ELSE IF Contains(class_name, "State") \/ Contains(class_name, "UiState")
             THEN "state"
             ELSE "default"
        ELSE IF layer = "data"
        THEN IF Contains(class_name, "RepositoryImpl") THEN "repository_impl"
             ELSE IF Contains(class_name, "Manager") THEN "manager"
             ELSE IF Contains(class_name, "Entity") \/ Contains(class_name, "Dao") THEN "entity"
             ELSE "default"
        ELSE "default"

\* get_weight(class_name, file_path)
get_weight(class_name, file_path) ==
    LET layer == get_layer(file_path)
        class_type == get_class_type(class_name, file_path)
    IN  IF layer = "test" THEN DictGet(FlatLayerWeights, "test", Whole(1))
        ELSE IF DictHas(LAYER_WEIGHTS, layer)
        THEN LET layer_weights == DictGet(LAYER_WEIGHTS, layer, <<>>)
             IN  DictGet(layer_weights, class_type,
                         DictGet(layer_weights, "default", Whole(1)))
        ELSE DictGet(FlatLayerWeights, layer, <<>>)

\* ClassInfo
ClassInfo(name, file_path, has_comment) ==
    [name |-> name, file_path |-> file_path, has_comment |-> has_comment,
     weight |-> get_weight(name, file_path), layer |-> get_layer(file_path)]

\* MethodInfo of a complex method
MethodInfo(name, file_path, has_comment) ==
    [name |-> name, file_path |-> file_path, has_comment |-> has_comment, is_test |-> FALSE]

\* self.stats[layer] of a layer not met before (defaultdict of int)
NoStats ==
    [total_classes |-> 0, total_weight |-> Whole(0),
     commented_classes |-> 0, commented_weight |-> Whole(0),
     chinese_comment_lines |-> 0, total_comment_lines |-> 0]

\* the update of self.stats[layer] for the classes of a file
RECURSIVE CountClasses(_, _, _)
CountClasses(stats, classes, n) ==
    IF n > Len(classes) THEN stats
    ELSE LET c == classes[n]
             counted == [stats EXCEPT !.total_classes = @ + 1,
                                      !.total_weight = FracAdd(@, c.weight)]
         IN  CountClasses(
                 IF c.has_comment
                 THEN [counted EXCEPT !.commented_classes = @ + 1,
                                      !.commented_weight = FracAdd(@, c.weight)]
                 ELSE counted,
                 classes, n + 1)

\* the sum of one field of the values of self.stats
RECURSIVE SumStats(_, _, _)
SumStats(stats, field, n) ==
    IF n > Len(stats) THEN Whole(0)
    ELSE FracAdd(stats[n].value[field], SumStats(stats, field, n + 1))

\* the importance of a layer in the chinese score, in tenths
LayerImportance(layer) ==
    IF layer = "domain" THEN Frac(3, 10)
    ELSE IF layer = "presentation" THEN Frac(3, 10)
    ELSE IF layer = "data" THEN Frac(2, 10)
    ELSE IF layer = "test" THEN Frac(1, 10)
    ELSE Frac(1, 10)

\* the loop over CHINESE_REQUIREMENTS of calculate_scores, from entry n on
RECURSIVE ChineseSum(_, _)
ChineseSum(stats, n) ==
    IF n > Len(CHINESE_REQUIREMENTS) THEN Whole(0)
    ELSE LET layer == CHINESE_REQUIREMENTS[n].key
             requirement == CHINESE_REQUIREMENTS[n].value
             s == DictGet(stats, layer, NoStats)
         IN  IF DictHas(stats, layer) /\ s.total_comment_lines > 0
             THEN LET chinese_ratio == Frac(s.chinese_comment_lines, s.total_comment_lines)
                      layer_score == IF FracLeq(requirement, chinese_ratio) THEN Whole(20)
                                     ELSE FracMul(FracDiv(chinese_ratio, requirement), Whole(20))
                  IN  FracAdd(FracMul(layer_score, LayerImportance(layer)),
                              ChineseSum(stats, n + 1))
             ELSE ChineseSum(stats, n + 1)

\* calculate_scores()
calculate_scores(stats, classes, methods) ==
    LET total_weight == SumStats(stats, "total_weight", 1)
        commented_weight == SumStats(stats, "commented_weight", 1)
        class_score == IF total_weight[1] > 0
                       THEN FracMul(FracDiv(commented_weight, total_weight), Whole(35))
                       ELSE Whole(0)
        complex_methods == Len(methods)
        commented_methods == Len(SelectSeq(methods, LAMBDA m : m.has_comment))
        method_score == IF complex_methods > 0
                        THEN FracMul(Frac(commented_methods, complex_methods), Whole(25))
                        ELSE Whole(25)
        ui_classes == SelectSeq(classes, LAMBDA c : c.layer = "presentation"
                                                    /\ Contains(c.name, "Screen"))
        ui_commented == Len(SelectSeq(ui_classes, LAMBDA c : c.has_comment))
        ui_score == IF ui_classes # <<>>
                    THEN FracMul(Frac(ui_commented, Len(ui_classes)), Whole(20))
                    ELSE Whole(20)
        chinese_sum == ChineseSum(stats, 1)
        chinese_score == IF FracLeq(Whole(20), chinese_sum) THEN Whole(20) ELSE chinese_sum
    IN  [class_score |-> class_score,
         method_score |-> method_score,
         ui_score |-> ui_score,
         chinese_score |-> chinese_score,
         total |-> FracAdd(FracAdd(FracAdd(class_score, method_score), ui_score),
                           chinese_score)]

\* print_report() that passes from grade A (90 points) on
print_report_passes_at_90(stats, classes, methods) ==
    LET scores == calculate_scores(stats, classes, methods)
    IN  [scores |-> scores, success |-> FracLeq(Whole(90), scores.total)]

\* print_report(): the scores it prints and the value it returns
print_report(stats, classes, methods) ==
    LET scores == calculate_scores(stats, classes, methods)
    IN  [scores |-> scores, success |-> FracLeq(Whole(95), scores.total)]

\* a Kotlin file as analyze_file reads it: its classes with the result of
\* check_class_comment, its methods counted as complex with the same, and the
\* lines that start a comment, of which some hold a Chinese character
CommentFile(file_path, class_name, documented, complex_method, comment_lines, chinese_lines) ==
    [file_path |-> file_path,
     classes |-> << [name |-> class_name, has_comment |-> documented] >>,
     methods |-> IF complex_method THEN << [name |-> "invoke", has_comment |-> documented] >>
                 ELSE <<>>,
     total_comment_lines |-> comment_lines,
     chinese_comment_lines |-> chinese_lines]

\* the files of the projects, each in a documented and an undocumented form
CommentFiles ==
    << { CommentFile("app/src/main/java/domain/GetStoryUseCase.kt", "GetStoryUseCase",
                     TRUE, TRUE, 5, 4),
         CommentFile("app/src/main/java/domain/GetStoryUseCase.kt", "GetStoryUseCase",
                     FALSE, TRUE, 5, 3) },
       { CommentFile("app/src/main/java/presentation/HomeScreen.kt", "HomeScreen",
                     TRUE, FALSE, 10, 7),
         CommentFile("app/src/main/java/presentation/HomeScreen.kt", "HomeScreen",
                     FALSE, FALSE, 0, 0) },
       { CommentFile("app/src/main/java/presentation/StoryViewModel.kt", "StoryViewModel",
                     TRUE, TRUE, 4, 4),
         CommentFile("app/src/main/java/presentation/StoryViewModel.kt", "StoryViewModel",
                     FALSE, TRUE, 4, 1) },
       { CommentFile("app/src/main/java/data/UserRepositoryImpl.kt", "UserRepositoryImpl",
                     TRUE, FALSE, 5, 3),
         CommentFile("app/src/main/java/data/UserRepositoryImpl.kt", "UserRepositoryImpl",
                     FALSE, FALSE, 5, 2) },
       { CommentFile("app/src/main/java/test/domain/StoryTest.kt", "StoryTest",
                     TRUE, TRUE, 5, 2),
         CommentFile("app/src/main/java/test/domain/StoryTest.kt", "StoryTest",
                     FALSE, TRUE, 2, 0) },
       { CommentFile("app/src/main/java/util/AppConfig.kt", "AppConfig",
                     TRUE, FALSE, 2, 1),
         CommentFile("app/src/main/java/util/AppConfig.kt", "AppConfig",
                     FALSE, FALSE, 0, 0) } >>

\* the projects: each file is absent or present in one of its forms
RECURSIVE CommentProjects(_)
CommentProjects(n) ==
    IF n > Len(CommentFiles) THEN { <<>> }
    ELSE LET rest == CommentProjects(n + 1)
         IN  rest \cup { <<file>> \o tail : file \in CommentFiles[n], tail \in rest }

\* WeightedCommentChecker(): classes in issues, methods in functions, stats
\* in contexts
InitWeighted ==
    /\ script = "weighted"
    /\ project \in CommentProjects(1)
    /\ pc = "walk"
    /\ issues = <<>>
    /\ functions = <<>> /\ contexts = <<>>
    /\ screens = NoValue /\ navigations = NoValue
    /\ system_health = NoValue
    /\ iteration_count = 0 /\ fixed_count = 0
    /\ report = NoValue
    /\ exit_status = "running"

\* analyze_file(file_path) for the next file of os.walk
analyze_file_weighted ==
    /\ script = "weighted" /\ pc = "walk"
    /\ iteration_count < Len(project)
    /\ LET file == project[iteration_count + 1]
           layer == get_layer(file.file_path)
           is_test == layer = "test"
           classes == [n \in 1..Len(file.classes) |->
                          ClassInfo(file.classes[n].name, file.file_path,
                                    file.classes[n].has_comment)]
           methods == IF is_test THEN <<>>
                      ELSE [n \in 1..Len(file.methods) |->
                               MethodInfo(file.methods[n].name, file.file_path,
                                          file.methods[n].has_comment)]
           counted == CountClasses(DictGet(contexts, layer, NoStats), classes, 1)
       IN  /\ issues' = issues \o classes
           /\ functions' = functions \o methods
           /\ contexts' = DictSet(contexts, layer,
                 [counted EXCEPT
                     !.chinese_comment_lines = @ + file.chinese_comment_lines,
                     !.total_comment_lines = @ + file.total_comment_lines])
    /\ iteration_count' = iteration_count + 1
    /\ UNCHANGED <<script, project, pc, screens, navigations, system_health, fixed_count,
                   report, exit_status>>

\* analyze_project() has walked every file
analyze_project_done ==
    /\ script = "weighted" /\ pc = "walk"
    /\ iteration_count = Len(project)
    /\ pc' = "report"
    /\ UNCHANGED <<script, project, issues, functions, contexts, screens, navigations,
                   system_health, iteration_count, fixed_count, report, exit_status>>

\* success = checker.print_report()
call_print_report ==
    /\ script = "weighted" /\ pc = "report"
    /\ pc' = "exit"
    /\ report' = print_report(contexts, issues, functions)
    /\ UNCHANGED <<script, project, issues, functions, contexts, screens, navigations,
                   system_health, iteration_count, fixed_count, exit_status>>

\* exit(0 if success else 1)
main_weighted ==
    /\ script = "weighted" /\ pc = "exit"
    /\ pc' = "done"
    /\ exit_status' = IF report.success THEN 0 ELSE 1
    /\ UNCHANGED <<script, project, issues, functions, contexts, screens, navigations,
                   system_health, iteration_count, fixed_count, report>>

NextWeighted ==
    \/ analyze_file_weighted
    \/ analyze_project_done
    \/ call_print_report
    \/ main_weighted

SpecWeighted == InitWeighted /\ [][NextWeighted]_vars

\* lo <= score <= hi
ScoreWithin(score, lo, hi) == FracLeq(Whole(lo), score) /\ FracLeq(score, Whole(hi))

\* C22: in every report of WeightedCommentChecker class_score is in [0, 35],
\* method_score in [0, 25], ui_score in [0, 20] and chinese_score in [0, 20],
\* total is their sum and lies in [0, 100], and print_report returns True,
\* and the process exits with status 0, exactly when total >= 95
C22_ScoreRangesAndPass ==
    (script = "weighted" /\ pc \in {"exit", "done"}) =>
        LET scores == report.scores
        IN  /\ ScoreWithin(scores.class_score, 0, 35)
            /\ ScoreWithin(scores.method_score, 0, 25)
            /\ ScoreWithin(scores.ui_score, 0, 20)
            /\ ScoreWithin(scores.chinese_score, 0, 20)
            /\ scores.total = FracAdd(FracAdd(scores.class_score, scores.method_score),
                                      FracAdd(scores.ui_score, scores.chinese_score))
            /\ ScoreWithin(scores.total, 0, 100)
            /\ report.success <=> FracLeq(Whole(95), scores.total)
            /\ pc = "done" =>
                  (exit_status = 0 <=> FracLeq(Whole(95), scores.total))

\* a run that passes with less than the full score and with a class score
\* that is neither 0 nor 35
C22_Witness ==
    /\ script = "weighted" /\ pc = "done"
    /\ exit_status = 0
    /\ ~FracLeq(Whole(100), report.scores.total)
    /\ ~FracLeq(Whole(35), report.scores.class_score)
    /\ ~FracLeq(report.scores.class_score, Whole(0))

\* the layers of the project with at least one comment line
CommentedLayers ==
    {n \in 1..Len(contexts) : contexts[n].value.total_comment_lines > 0}

\* C23: when at least one layer has comment lines and every layer that has
\* comment lines meets its requirement of CHINESE_REQUIREMENTS, chinese_score
\* is 20, whichever layers are present
C23_FullChineseScoreWhenAllMet ==
    (/\ script = "weighted" /\ pc \in {"exit", "done"}
     /\ CommentedLayers # {}
     /\ \A n \in CommentedLayers :
           FracLeq(DictGet(CHINESE_REQUIREMENTS, contexts[n].key, Whole(0)),
                   Frac(contexts[n].value.chinese_comment_lines,
                        contexts[n].value.total_comment_lines)))
        => report.scores.chinese_score = Whole(20)

----------------------------------------------------------------------------
(* IntelligentValidatorV5.filter_false_positives on a given issue list: in   *)
(* a whole run no issue of an analysed file reaches it, so its cases are     *)
(* exercised by calling it on lists of issues of every kind of file.         *)

\* self.contexts: an interface file, a test file, a data-class file and a
\* file that is none of these
FilterContexts ==
    << [key |-> "app/src/main/java/domain/UserRepository.kt",
        value |-> [file_path |-> "app/src/main/java/domain/UserRepository.kt",
                   is_interface |-> TRUE, is_abstract |-> FALSE, is_data_class |-> FALSE,
                   is_test_file |-> FALSE, class_name |-> "UserRepository"]],
       [key |-> "app/src/test/java/data/UserRepositoryImplTest.kt",
        value |-> [file_path |-> "app/src/test/java/data/UserRepositoryImplTest.kt",
                   is_interface |-> FALSE, is_abstract |-> FALSE, is_data_class |-> FALSE,
                   is_test_file |-> TRUE, class_name |-> "UserRepositoryImplTest"]],
       [key |-> "app/src/main/java/data/User.kt",
        value |-> [file_path |-> "app/src/main/java/data/User.kt",
                   is_interface |-> FALSE, is_abstract |-> FALSE, is_data_class |-> TRUE,
                   is_test_file |-> FALSE, class_name |-> "User"]],
       [key |-> "app/src/main/java/data/UserStore.kt",
        value |-> [file_path |-> "app/src/main/java/data/UserStore.kt",
                   is_interface |-> FALSE, is_abstract |-> FALSE, is_data_class |-> FALSE,
                   is_test_file |-> FALSE, class_name |-> "UserStore"]] >>

\* the issues of the lists: of the analysed files and of the pseudo file
\* "Navigation", of the types the filter looks at and of one it does not
FilterIssues ==
    { IssueV5(file_path, issue_type, description, "MAJOR", "evidence") :
        file_path \in {FilterContexts[n].key : n \in 1..Len(FilterContexts)} \cup {"Navigation"},
        issue_type \in {"empty_implementation", "missing_error_handling",
                        "hardcoded_return", "missing_persistence"},
        description \in {"equals is missing", "body is empty"} }

\* the issue lists of up to MaxFilterIssues issues
RECURSIVE IssueLists(_)
IssueLists(n) ==
    IF n = 0 THEN { <<>> }
    ELSE IssueLists(n - 1)
         \cup { Append(list, issue) : list \in IssueLists(n - 1), issue \in FilterIssues }

InitFilter ==
    /\ script = "v5.filter"
    /\ project \in [issues : IssueLists(MaxFilterIssues), contexts : {FilterContexts}]
    /\ pc = "filter"
    /\ issues = project.issues
    /\ contexts = project.contexts
    /\ functions = <<>>
    /\ screens = {} /\ navigations = {}
    /\ system_health = NoValue
    /\ iteration_count = 0 /\ fixed_count = 0
    /\ report = NoValue
    /\ exit_status = "running"

\* self.filter_false_positives()
call_filter_false_positives ==
    /\ script = "v5.filter" /\ pc = "filter"
    /\ LET result == filter_false_positives(<<>>, issues, contexts)
       IN IF result.raised # ""
          THEN pc' = "crashed" /\ UNCHANGED issues
          ELSE pc' = "filtered" /\ issues' = result.issues
    /\ UNCHANGED <<script, project, functions, contexts, report, exit_status, NotV5>>

NextFilter == call_filter_false_positives

SpecFilter == InitFilter /\ [][NextFilter]_vars

\* the issues the filter is said to remove
SaidToBeRemoved(issue) ==
    /\ DictHas(contexts, issue.file_path)
    /\ LET context == DictGet(contexts, issue.file_path, NoValue)
       IN  \/ issue.issue_type = "empty_implementation" /\ context.is_interface
           \/ issue.issue_type = "missing_error_handling" /\ context.is_test_file
           \/ context.is_data_class /\ issue.description = "equals is missing"

\* C26: filter_false_positives returns, and the issue list after it is the
\* list before it without the empty_implementation issues of interface files,
\* the missing_error_handling issues of test files and the equals/hashCode
\* issues of data-class files, the other issues kept in their order
C26_FilterRemovesOnlyFalsePositives ==
    (script = "v5.filter" /\ pc # "filter") =>
        /\ pc = "filtered"
        /\ issues = SelectSeq(project.issues, LAMBDA issue : ~SaidToBeRemoved(issue))

----------------------------------------------------------------------------
(* Two calls of validate() on one SmartValidator or IntelligentValidatorV5   *)
(* object over unchanged files.  The number of calls made is kept in         *)
(* iteration_count and the report of the first call in system_health.        *)

InitTwice == InitSmart \/ InitV5

\* validator.validate() called again after it returned its first report:
\* neither validate() nor a phase resets self.issues
validate_again ==
    /\ script \in {"smart", "v5"} /\ pc = "exit"
    /\ iteration_count = 0
    /\ iteration_count' = 1
    /\ system_health' = report
    /\ pc' = IF script = "smart" THEN "scan" ELSE "context"
    /\ UNCHANGED <<script, project, issues, functions, contexts, screens, navigations,
                   fixed_count, report, exit_status>>

NextTwice ==
    \/ scan_project
    \/ semantic_analysis
    \/ completeness_check
    \/ generate_report_smart
    \/ build_code_context
    \/ analyze_code_intelligently
    \/ semantic_validation
    \/ business_logic_validation
    \/ integration_validation
    \/ filter_issues
    \/ generate_comprehensive_report_v5
    \/ validate_again
    \/ main_exit

SpecTwice == InitTwice /\ [][NextTwice]_vars

\* the total issue count of a report of either class
TotalIssues(r) == IF script = "smart" THEN r.issues.total ELSE r.statistics.total_issues

\* C27: the report of a second call of validate() on the same SmartValidator
\* or IntelligentValidatorV5 object, over unchanged files, has the total
\* issue count and the success value of the report of the first call
C27_SecondRunGivesSameReport ==
    (script \in {"smart", "v5"} /\ iteration_count = 1 /\ pc \in {"exit", "done"}) =>
        /\ TotalIssues(report) = TotalIssues(system_health)
        /\ report.success = system_health.success

----------------------------------------------------------------------------
(* The levels of the issues of IntelligentValidatorV6 *)

\* C28: in every state of a run of IntelligentValidatorV6.validate() every
\* recorded issue has level CRITICAL, MAJOR or MINOR, never SHOWSTOPPER or
\* SUGGESTION, so the report's can_release is true exactly when fewer than 3
\* CRITICAL issues were recorded
C28_NoShowstopperRecorded ==
    script = "v6" =>
        /\ \A n \in 1..Len(issues) : issues[n].level \in {"CRITICAL", "MAJOR", "MINOR"}
        /\ ReportedV6 => (report.can_release <=> issue_stats(issues, "CRITICAL") < 3)

\* a report that refuses the release over three CRITICAL issues
C28_Witness ==
    /\ ReportedV6
    /\ issue_stats(issues, "CRITICAL") = 3
    /\ report.can_release = FALSE

----------------------------------------------------------------------------
(* SmartValidator.check_function_issues on a func_info dict of any content:  *)
(* extract_functions calls it once per function with the flags it computed   *)
(* from the body.                                                            *)

\* the func_info dicts: every value of the six flags, in a ViewModel file
\* and in another file
FuncInfos ==
    [file : {"app/src/main/java/ui/StoryViewModel.kt", "app/src/main/java/ui/HomeScreen.kt"},
     name : {"loadStory"},
     is_empty : BOOLEAN, has_todo : BOOLEAN, is_fake : BOOLEAN,
     calls_api : BOOLEAN, handles_error : BOOLEAN, updates_ui : BOOLEAN]

InitFuncIssues ==
    /\ script = "smart.check_function_issues"
    /\ project \in FuncInfos
    /\ pc = "check"
    /\ issues = <<>>
    /\ functions = <<>>
    /\ screens = {} /\ navigations = {}
    /\ contexts = <<>>
    /\ system_health = NoValue
    /\ iteration_count = 0 /\ fixed_count = 0
    /\ report = NoValue
    /\ exit_status = "running"

\* self.check_function_issues(func_info)
call_check_function_issues ==
    /\ script = "smart.check_function_issues" /\ pc = "check"
    /\ issues' = issues \o check_function_issues(project)
    /\ pc' = "checked"
    /\ UNCHANGED <<script, project, functions, contexts, screens, navigations,
                   system_health, iteration_count, fixed_count, report, exit_status>>

NextFuncIssues == call_check_function_issues

SpecFuncIssues == InitFuncIssues /\ [][NextFuncIssues]_vars

\* the types of the recorded issues that are among the given ones, in order
TypesAmong(types) ==
    LET among == SelectSeq(issues, LAMBDA i : i.type \in types)
    IN  [n \in 1..Len(among) |-> among[n].type]

\* C29: check_function_issues gives a function at most one of the findings
\* empty_function, todo_marker and fake_implementation, empty_function
\* before todo_marker before fake_implementation, and adds missing_ui_update
\* and missing_error_handling for a ViewModel file whatever the first finding
C29_OneImplementationFinding ==
    (script = "smart.check_function_issues" /\ pc = "checked") =>
        /\ TypesAmong({"empty_function", "todo_marker", "fake_implementation"}) =
              IF project.is_empty THEN <<"empty_function">>
              ELSE IF project.has_todo THEN <<"todo_marker">>
              ELSE IF project.is_fake THEN <<"fake_implementation">>
              ELSE <<>>
        /\ TypesAmong({"missing_ui_update"}) =
              IF /\ Contains(project.file, "ViewModel")
                 /\ project.calls_api /\ ~project.updates_ui
              THEN <<"missing_ui_update">> ELSE <<>>
        /\ TypesAmong({"missing_error_handling"}) =
              IF /\ Contains(project.file, "ViewModel")
                 /\ project.calls_api /\ ~project.handles_error
              THEN <<"missing_error_handling">> ELSE <<>>

\* a ViewModel function with a TODO and a suspicious return that calls the
\* API without state update or error handling: todo_marker and both
\* ViewModel findings
C29_Witness ==
    /\ script = "smart.check_function_issues" /\ pc = "checked"
    /\ ~project.is_empty /\ project.has_todo /\ project.is_fake
    /\ TypesAmong({"empty_function", "todo_marker", "fake_implementation",
                   "missing_ui_update", "missing_error_handling"})
          = <<"todo_marker", "missing_ui_update", "missing_error_handling">>

----------------------------------------------------------------------------
(* ValidatorPatch (validator-v6-patch.py).  self.real_issues is kept in      *)
(* issues.  A project is given by what the two checks look at: its           *)
(* implementation files, each with or without a network call and with or     *)
(* without error handling, and its important ViewModels without a test.      *)

\* 'original_issues': 38
OriginalIssues == 38

\* the three ViewModels check_test_coverage reports
important_viewmodels == {"StoryViewModel", "DialogueViewModel", "ProfileViewModel"}

\* the Impl.kt / ViewModel.kt files under app/src/main: `unhandled` files
\* with a network call and no error handling, then `handled` files with both
ImplFiles(unhandled, handled) ==
    [n \in 1..(unhandled + handled) |->
        [file |-> <<"Repository", n, "Impl.kt">>,
         has_network_call |-> TRUE,
         has_error_handling |-> n > unhandled]]

\* the issues check_error_handling_smartly appends, file after file
RECURSIVE error_handling_issues(_, _)
error_handling_issues(impl_files, n) ==
    IF n > Len(impl_files) THEN <<>>
    ELSE (IF impl_files[n].has_network_call /\ ~impl_files[n].has_error_handling
          THEN << [file |-> impl_files[n].file, type |-> "missing_error_handling",
                   severity |-> "MAJOR"] >>
          ELSE <<>>)
         \o error_handling_issues(impl_files, n + 1)

\* the issues check_test_coverage appends for important_untested, in the
\* order in which the set untested is iterated
missing_test_issues(ordering) ==
    [n \in 1..Len(ordering) |->
        [file |-> <<ordering[n], ".kt">>, type |-> "missing_test", severity |-> "MAJOR"]]

\* the report dict of generate_patch_report
ReportPatch(real_issues) ==
    [original_issues |-> OriginalIssues,
     real_issues |-> Len(real_issues),
     false_positives |-> OriginalIssues - Len(real_issues),
     can_release |-> TRUE,
     adjusted_score |-> 88,
     details |-> real_issues]

InitPatch ==
    /\ script = "patch"
    /\ project \in [unhandled : 0..MaxPatchFiles, handled : 0..1,
                    source_viewmodels : SUBSET (important_viewmodels \cup {"HomeViewModel"}),
                    test_files : SUBSET {"StoryViewModel"}]
    /\ pc = "error_handling"
    /\ issues = <<>>
    /\ functions = NoValue /\ contexts = NoValue
    /\ screens = NoValue /\ navigations = NoValue
    /\ system_health = NoValue
    /\ iteration_count = 0 /\ fixed_count = 0
    /\ report = NoValue
    /\ exit_status = "running"

\* check_error_handling_smartly()
check_error_handling_smartly ==
    /\ script = "patch" /\ pc = "error_handling"
    /\ issues' = issues \o error_handling_issues(
                               ImplFiles(project.unhandled, project.handled), 1)
    /\ pc' = "test_coverage"
    /\ UNCHANGED <<script, project, functions, contexts, screens, navigations,
                   system_health, iteration_count, fixed_count, report, exit_status>>

\* check_test_coverage()
check_test_coverage ==
    /\ script = "patch" /\ pc = "test_coverage"
    /\ LET untested == project.source_viewmodels \ project.test_files
           important_untested == untested \cap important_viewmodels
       IN  \E ordering \in Orderings(important_untested) :
               issues' = issues \o missing_test_issues(ordering)
    /\ pc' = "report"
    /\ UNCHANGED <<script, project, functions, contexts, screens, navigations,
                   system_health, iteration_count, fixed_count, report, exit_status>>

\* generate_patch_report()
generate_patch_report ==
    /\ script = "patch" /\ pc = "report"
    /\ pc' = "exit"
    /\ report' = ReportPatch(issues)
    /\ UNCHANGED <<script, project, issues, functions, contexts, screens, navigations,
                   system_health, iteration_count, fixed_count, exit_status>>

\* __main__ ends after run_smart_validation()
main_patch ==
    /\ script = "patch" /\ pc = "exit"
    /\ pc' = "done"
    /\ exit_status' = 0
    /\ UNCHANGED <<script, project, issues, functions, contexts, screens, navigations,
                   system_health, iteration_count, fixed_count, report>>

NextPatch ==
    \/ check_error_handling_smartly
    \/ check_test_coverage
    \/ generate_patch_report
    \/ main_patch

SpecPatch == InitPatch /\ [][NextPatch]_vars

\* the issue lists of the runs with no untested ViewModel
PatchIssueLists ==
    { error_handling_issues(ImplFiles(unhandled, 0), 1) : unhandled \in 0..MaxPatchFiles }

\* C30: the verdict of generate_patch_report depends on the findings: there
\* are issue lists whose reports differ in can_release and lists whose
\* reports differ in adjusted_score, and false_positives is never negative
C30_VerdictDependsOnFindings ==
    (script = "patch" /\ pc \in {"exit", "done"}) =>
        /\ \E a, b \in PatchIssueLists :
              ReportPatch(a).can_release # ReportPatch(b).can_release
        /\ \E a, b \in PatchIssueLists :
              ReportPatch(a).adjusted_score # ReportPatch(b).adjusted_score
        /\ report.false_positives >= 0

====
